---- MODULE Spec2Model ----
(***************************************************************************)
(* Nomad Media Player: the proxy failover fetcher (services/proxy),        *)
(* the zero-knowledge session (App, services/crypto, services/db), the     *)
(* settings record (SettingsPanel) and the feed cache (mediaResolver).     *)
(*                                                                         *)
(* Strings are sequences of tokens: a token is a run of characters the     *)
(* code never looks inside, so includes(), trim() and endsWith() are       *)
(* computed on tokens.  " " is the whitespace token.                       *)
(***************************************************************************)
EXTENDS Integers, Sequences, FiniteSets, TLC

VARIABLES
    \* ---- services/proxy: module state and one fetchText call
    MEMORY_NOMAD_KEY,   \* let MEMORY_NOMAD_KEY: string | null
    MEMORY_NOMAD_URL,   \* let MEMORY_NOMAD_URL: string | null
    statusCallback,     \* whether a status callback is registered
    dbSettings,         \* the persisted settings record ('config'), or Undefined
    fpc,                \* position of the fetchText call
    fSettings,          \* the settings the call read at its start
    proxies,            \* const proxies: string[]
    fIdx,               \* index of the for-of loop over proxies
    lastError,          \* let lastError: Error | null
    usedPublic,         \* let usedPublic
    attempts,           \* the requests the call has made, with their outcome
    statusCalls,        \* the statuses the call passed to statusCallback
    fResult,            \* how the call settled: the body or the error
    \* ---- App: React state of the session
    isDbReady,          \* useState(false)
    hasUser,            \* useState(false)
    isAuthenticated,    \* useState(false)
    sessionKey,         \* useState<CryptoKey | null>(null)
    authError,          \* useState('')
    \* ---- services/db: the 'auth' object store, keyed by username
    dbAuth,
    \* ---- in-memory secrets of the other services
    MEMORY_API_KEY,     \* services/youtube: let MEMORY_API_KEY
    GEMINI_API_KEY,     \* services/gemini: let MEMORY_API_KEY
    \* ---- SettingsPanel: the settings each handler read and has not yet written
    snap,
    \* ---- what the last operation was, and what the last submission did
    lastOp,
    lastAuth,
    regThenLogout,      \* the (username, password) registered and then logged out
    \* ---- the 'channels' store and the feed of one channel
    dbItem,             \* the channel's record in the store
    viewItem,           \* the channel's record in App's channels state
    now,                \* Date.now(), in hours
    gv,                 \* the last getVideos call: its arguments and what it did
    netFetch,           \* the last network fetch whose list went to the cache
    \* ---- FeedViewer: its props and state, and the loadContent calls in flight
    viewer,
    loads,
    \* ---- services/crypto: one plaintext taken through encryptData, the settings
    \* record and decryptData
    cx,
    \* ---- SettingsPanel: the connection test and the exported backup
    tc,
    exported,
    \* ---- App: the initializeSecureServices calls that have not returned
    secureInit,
    \* ---- RandomDiscovery: the loadContent call that has not returned
    refresh,
    \* ---- services/db: the 'tags' store, the stores of media items, 'watchLater'
    dbTags,
    dbMedia,
    dbWatchLater,
    \* ---- App: React state read from those stores, and loadData calls in flight
    tags,               \* useState<string[]>([])
    watchLater,         \* useState<MediaItem[]>([])
    reloads,
    deletedTag          \* the argument of the last dbService.deleteTag call

proxyVars == <<MEMORY_NOMAD_KEY, MEMORY_NOMAD_URL, statusCallback, dbSettings, fpc,
               fSettings, proxies, fIdx, lastError, usedPublic, attempts,
               statusCalls, fResult>>

appVars == <<isDbReady, hasUser, isAuthenticated, sessionKey, authError, dbAuth,
             MEMORY_API_KEY, GEMINI_API_KEY, snap, lastOp, lastAuth, regThenLogout>>

viewerVars == <<viewer, loads>>

cacheVars == <<dbItem, viewItem, now, gv, netFetch>>

cryptoVars == <<cx>>

panelVars == <<tc, exported>>

initVars == <<secureInit>>

dashVars == <<refresh>>

libraryVars == <<dbTags, dbMedia, dbWatchLater, tags, watchLater, reloads, deletedTag>>

restVars == <<initVars, dashVars, libraryVars>>

otherVars == <<cacheVars, viewerVars, cryptoVars, panelVars, restVars>>

vars == <<proxyVars, appVars, otherVars>>

\* null / undefined where a string is expected: a one-token string no input equals.
Null == <<"null">>

\* An object store holding at most one record is the set of its records: the
\* settings store is {} until the first saveSettings, then {the 'config' record}.
\* getSettings resolves with undefined on {}.
Undefined == {}

\* lastError = null, and a fetchText promise that has not settled.
NoError == [msg |-> "", url |-> <<>>]
Pending == [kind |-> "pending", body |-> <<>>, error |-> NoError]

\* ------------------------------------------------------------------ strings

RECURSIVE TrimStart(_)
TrimStart(s) == IF s # <<>> /\ Head(s) = " " THEN TrimStart(Tail(s)) ELSE s

RECURSIVE TrimEnd(_)
TrimEnd(s) ==
    IF s # <<>> /\ s[Len(s)] = " " THEN TrimEnd(SubSeq(s, 1, Len(s) - 1)) ELSE s

Trim(s) == TrimEnd(TrimStart(s))

Includes(s, tok) == \E i \in 1..Len(s) : s[i] = tok

EndsWith(s, tok) == s # <<>> /\ s[Len(s)] = tok

\* ------------------------------------------------------------ services/crypto
\* Symbolic cryptography: PBKDF2, SHA-256 and AES-GCM are free constructors, so
\* two derived keys, digests or ciphertexts are equal only if built from equal
\* parts.  Base64 text is kept apart from the bytes it encodes.

arrayBufferToBase64(bytes) == [b64 |-> bytes]
base64ToArrayBuffer(base64) == base64.b64

Salts == {"salt1", "salt2"}
IVs == {"iv1", "iv2"}

NoKey == [pw |-> "", salt |-> ""]

generateSalt(random) == arrayBufferToBase64(random)

deriveKeyIgnoringPassword(password, saltBase64) ==
    [pw |-> "any", salt |-> base64ToArrayBuffer(saltBase64)]

deriveKey(password, saltBase64) ==
    [pw |-> password, salt |-> base64ToArrayBuffer(saltBase64)]

\* createVerifier without the digest: the exported key itself.
createVerifierExportsKey(key) == arrayBufferToBase64(key)

createVerifier(key) == arrayBufferToBase64([sha256 |-> key])

\* Code units with a meaning to the text codecs: the byte order mark, an
\* unpaired surrogate, and the replacement character.
BOM == "U+FEFF"
LoneSurrogate == "U+D800"
Replacement == "U+FFFD"

\* new TextEncoder().encode(str): UTF-8, an unpaired surrogate encoded as U+FFFD.
str2buf(str) ==
    [utf8 |-> [i \in 1..Len(str) |->
                  IF str[i] = LoneSurrogate THEN Replacement ELSE str[i]]]

\* new TextDecoder().decode(buffer): UTF-8, a leading byte order mark dropped.
buf2str(buffer) ==
    IF buffer.utf8 # <<>> /\ Head(buffer.utf8) = BOM THEN Tail(buffer.utf8)
    ELSE buffer.utf8

NoCipher == [gcm |-> str2buf(<<>>), key |-> NoKey, iv |-> ""]
NoBlob == [iv |-> arrayBufferToBase64(""), ciphertext |-> arrayBufferToBase64(NoCipher)]

encryptData(text, key, iv) ==
    [iv |-> arrayBufferToBase64(iv),
     ciphertext |-> arrayBufferToBase64([gcm |-> str2buf(text), key |-> key, iv |-> iv])]

\* Whether subtle.decrypt accepts the blob under the key (the GCM tag checks).
Decrypts(data, key) ==
    LET iv == base64ToArrayBuffer(data.iv)
        ciphertext == base64ToArrayBuffer(data.ciphertext)
    IN  ciphertext.key = key /\ ciphertext.iv = iv /\ key # NoKey

\* throw new Error("Failed to decrypt. Key may be incorrect.")
DecryptError == <<"Error: Failed to decrypt. Key may be incorrect.">>

\* decryptData returning whatever the ciphertext holds, the tag unchecked.
decryptDataUnauthenticated(data, key) ==
    buf2str(base64ToArrayBuffer(data.ciphertext).gcm)

\* The decrypted text, or DecryptError where the call throws.
decryptData(data, key) ==
    IF Decrypts(data, key) THEN buf2str(base64ToArrayBuffer(data.ciphertext).gcm)
    ELSE DecryptError

\* ------------------------------------------------- the settings record (types)

NoDashboard == [timestamp |-> 0, videos |-> <<>>]

\* The 'config' record with every optional field absent.  An absent field
\* reads as falsy everywhere the code reads it (settings?.f && ..., settings?.f
\* || default), as do '' and 0, so absent strings are <<>>, absent numbers 0.
EmptySettings ==
    [apiKey |-> NoBlob, vimeoToken |-> NoBlob, dailymotionToken |-> NoBlob,
     nomadProxyKey |-> NoBlob, geminiApiKey |-> NoBlob,
     nomadUrl |-> <<>>, customProxyUrl |-> <<>>, proxy1Url |-> <<>>,
     proxy2Url |-> <<>>, feedCacheDuration |-> 0, dashboardCache |-> NoDashboard]

SettingsFields == DOMAIN EmptySettings

\* await dbService.getSettings() || {}
OrEmpty(settings) == IF settings = Undefined THEN EmptySettings
                     ELSE CHOOSE r \in settings : TRUE

\* ------------------------------------------------------------ services/proxy

DEFAULT_PROXY_1 == <<"https://api.", "allorigins", ".win/raw?url=">>
DEFAULT_PROXY_2 == <<"https://", "corsproxy", ".io/?">>
DEFAULT_NOMAD_URL == <<"https://nomad.xoopserver.workers.dev", "/">>

\* Proxy URLs a user can type into the network form.
HomelabUrl == <<"https://relay.home.lan/?u=">>
HomelabCorsproxyUrl == <<"https://", "corsproxy", ".home.lan/?">>
MirrorUrl == <<"https://mirror.example/get?">>
BlankUrl == <<" ">>
WorkerUrl == <<"https://w.example.workers.dev">>

\* A request's outcome, as the network decides it.
Outcomes == {"valid", "empty", "denied", "proxyerr", "forbidden", "status", "neterr"}

\* The body a server answers with: a valid body names the URL it came from.
BodyOf(outcome, url) ==
    CASE outcome = "valid"     -> <<"<feed>">> \o url
      [] outcome = "empty"     -> <<>>
      [] outcome = "denied"    -> <<"Access Denied">>
      [] outcome = "proxyerr"  -> <<"<html>", "Proxy Error">>
      [] outcome = "forbidden" -> <<"403 Forbidden", "</html>">>
      [] OTHER                 -> <<>>

\* isValidResponse looking at the empty body alone.
isValidResponseNoMarkers(text) == text # <<>>

isValidResponse(text) ==
    ~ (text = <<>> \/ Includes(text, "Access Denied") \/ Includes(text, "Proxy Error")
         \/ Includes(text, "403 Forbidden"))

\* The error a request throws: res.ok false, or fetch itself rejecting.
ErrorOf(outcome, url) ==
    IF outcome = "status" THEN [msg |-> "returned 500", url |-> url]
    ELSE [msg |-> "Failed to fetch", url |-> url]

Threw(outcome) == outcome \in {"status", "neterr"}

GenericError == [msg |-> "All proxies failed to fetch content", url |-> <<>>]

\* settings?.f && settings.f.trim() !== ''
Field(settings, f) == OrEmpty(settings)[f]

Configured(settings, f) == Field(settings, f) # <<>> /\ Trim(Field(settings, f)) # <<>>

\* CandidateList pushing the custom URL whenever the field is set, blank or not.
CandidateListBlankCustom(settings) ==
    (IF Field(settings, "customProxyUrl") # <<>>
     THEN <<[tier |-> 2, url |-> Trim(Field(settings, "customProxyUrl"))]>> ELSE <<>>)
    \o <<[tier |-> 3,
          url |-> IF Configured(settings, "proxy1Url")
                  THEN Trim(Field(settings, "proxy1Url")) ELSE DEFAULT_PROXY_1]>>
    \o <<[tier |-> 4,
          url |-> IF Configured(settings, "proxy2Url")
                  THEN Trim(Field(settings, "proxy2Url")) ELSE DEFAULT_PROXY_2]>>

\* const proxies: string[], each URL tagged with the tier it stands for
\* (2 custom, 3 public 1, 4 public 2); the code holds the URLs alone.
CandidateList(settings) ==
    (IF Configured(settings, "customProxyUrl")
     THEN <<[tier |-> 2, url |-> Trim(Field(settings, "customProxyUrl"))]>> ELSE <<>>)
    \o <<[tier |-> 3,
          url |-> IF Configured(settings, "proxy1Url")
                  THEN Trim(Field(settings, "proxy1Url")) ELSE DEFAULT_PROXY_1]>>
    \o <<[tier |-> 4,
          url |-> IF Configured(settings, "proxy2Url")
                  THEN Trim(Field(settings, "proxy2Url")) ELSE DEFAULT_PROXY_2]>>

\* cleanProxyBase.includes('allorigins') || cleanProxyBase.includes('corsproxy')
isPublic(cleanProxyBase) ==
    Includes(cleanProxyBase, "allorigins") \/ Includes(cleanProxyBase, "corsproxy")

WorkerBaseUrl(settings, memUrl) ==
    LET settingUrl == IF Configured(settings, "nomadUrl") THEN Field(settings, "nomadUrl")
                      ELSE Null
        rawWorkerUrl == IF memUrl # Null THEN memUrl
                        ELSE IF settingUrl # Null THEN settingUrl
                        ELSE DEFAULT_NOMAD_URL
        workerUrl == Trim(rawWorkerUrl)
    IN  IF EndsWith(workerUrl, "/") THEN workerUrl ELSE workerUrl \o <<"/">>

\* key ? key.trim() : null
NomadKeyValue(key) == IF key # <<>> THEN Trim(key) ELSE Null

setNomadKey(key) ==
    /\ MEMORY_NOMAD_KEY' = NomadKeyValue(key)
    /\ UNCHANGED <<MEMORY_NOMAD_URL, statusCallback, dbSettings, fpc, fSettings,
                   proxies, fIdx, lastError, usedPublic, attempts, statusCalls,
                   fResult>>
    /\ UNCHANGED <<appVars, otherVars>>

onProxyStatusChange ==
    /\ statusCallback = FALSE
    /\ statusCallback' = TRUE
    /\ UNCHANGED <<MEMORY_NOMAD_KEY, MEMORY_NOMAD_URL, dbSettings, fpc, fSettings,
                   proxies, fIdx, lastError, usedPublic, attempts, statusCalls,
                   fResult>>
    /\ UNCHANGED <<appVars, otherVars>>

Notify(status) == IF statusCallback THEN Append(statusCalls, status) ELSE statusCalls

\* FetchTextStart contacting the worker whether or not a key is held.
FetchTextStartAlwaysWorker ==
    /\ fpc \in {"idle", "resolved", "rejected"}
    /\ fSettings' = dbSettings
    /\ attempts' = <<>>
    /\ statusCalls' = <<>>
    /\ fResult' = Pending
    /\ lastError' = NoError
    /\ usedPublic' = FALSE
    /\ fIdx' = 1
    /\ fpc' = "nomad"
    /\ proxies' = <<>>
    /\ UNCHANGED <<MEMORY_NOMAD_KEY, MEMORY_NOMAD_URL, statusCallback, dbSettings>>
    /\ UNCHANGED <<appVars, otherVars>>

\* fetchText up to its first request: the settings are read, then either the
\* worker is contacted or the candidate list is built.
FetchTextStart ==
    /\ fpc \in {"idle", "resolved", "rejected"}
    /\ fSettings' = dbSettings
    /\ attempts' = <<>>
    /\ statusCalls' = <<>>
    /\ fResult' = Pending
    /\ lastError' = NoError
    /\ usedPublic' = FALSE
    /\ fIdx' = 1
    /\ IF MEMORY_NOMAD_KEY # Null /\ MEMORY_NOMAD_KEY # <<>>
       THEN fpc' = "nomad" /\ proxies' = <<>>
       ELSE fpc' = "loop" /\ proxies' = CandidateList(dbSettings)
    /\ UNCHANGED <<MEMORY_NOMAD_KEY, MEMORY_NOMAD_URL, statusCallback, dbSettings>>
    /\ UNCHANGED <<appVars, otherVars>>

\* The reason dbService.getSettings rejects with: the database is not open, or
\* the read request fails.
DbError == [msg |-> "DB not initialized", url |-> <<>>]

\* fetchText when dbService.getSettings rejects: the await stands outside every
\* try, so the call rejects before a request is made or a status reported.
FetchTextSettingsRejected ==
    /\ fpc \in {"idle", "resolved", "rejected"}
    /\ fSettings' = Undefined
    /\ attempts' = <<>>
    /\ statusCalls' = <<>>
    /\ fResult' = [kind |-> "rejected", body |-> <<>>, error |-> DbError]
    /\ lastError' = NoError
    /\ usedPublic' = FALSE
    /\ fIdx' = 1
    /\ proxies' = <<>>
    /\ fpc' = "rejected"
    /\ UNCHANGED <<MEMORY_NOMAD_KEY, MEMORY_NOMAD_URL, statusCallback, dbSettings>>
    /\ UNCHANGED <<appVars, otherVars>>

\* The request to the authenticated worker and what follows it.
NomadAttempt(outcome) ==
    /\ fpc = "nomad"
    /\ LET url == WorkerBaseUrl(fSettings, MEMORY_NOMAD_URL)
           text == BodyOf(outcome, url)
           good == ~Threw(outcome) /\ isValidResponse(text)
       IN  /\ attempts' = Append(attempts,
                  [tier |-> 1, url |-> url, outcome |-> outcome, ok |-> good])
           /\ IF good
              THEN /\ statusCalls' = Notify("secure")
                   /\ fResult' = [kind |-> "resolved", body |-> text, error |-> NoError]
                   /\ fpc' = "resolved"
                   /\ proxies' = proxies
              ELSE /\ statusCalls' = statusCalls
                   /\ fResult' = fResult
                   /\ fpc' = "loop"
                   /\ proxies' = CandidateList(fSettings)
    /\ UNCHANGED <<MEMORY_NOMAD_KEY, MEMORY_NOMAD_URL, statusCallback, dbSettings,
                   fSettings, fIdx, lastError, usedPublic>>
    /\ UNCHANGED <<appVars, otherVars>>

\* ProxyAttempt with the return after a valid body left out: the loop goes on.
ProxyAttemptNoReturn(outcome) ==
    /\ fpc = "loop"
    /\ fIdx <= Len(proxies)
    /\ LET cleanProxyBase == Trim(proxies[fIdx].url)
           nowPublic == usedPublic \/ isPublic(cleanProxyBase)
           text == BodyOf(outcome, cleanProxyBase)
           good == ~Threw(outcome) /\ isValidResponse(text)
       IN  /\ usedPublic' = nowPublic
           /\ attempts' = Append(attempts,
                  [tier |-> proxies[fIdx].tier, url |-> cleanProxyBase,
                   outcome |-> outcome, ok |-> good])
           /\ lastError' = (IF Threw(outcome) THEN ErrorOf(outcome, cleanProxyBase)
                            ELSE lastError)
           /\ fIdx' = fIdx + 1
           /\ UNCHANGED <<statusCalls, fResult, fpc>>
    /\ UNCHANGED <<MEMORY_NOMAD_KEY, MEMORY_NOMAD_URL, statusCallback, dbSettings,
                   fSettings, proxies>>
    /\ UNCHANGED <<appVars, otherVars>>

\* ProxyAttempt keeping the first error it caught instead of the last.
ProxyAttemptFirstError(outcome) ==
    /\ fpc = "loop"
    /\ fIdx <= Len(proxies)
    /\ LET cleanProxyBase == Trim(proxies[fIdx].url)
           nowPublic == usedPublic \/ isPublic(cleanProxyBase)
           text == BodyOf(outcome, cleanProxyBase)
           good == ~Threw(outcome) /\ isValidResponse(text)
       IN  /\ usedPublic' = nowPublic
           /\ attempts' = Append(attempts,
                  [tier |-> proxies[fIdx].tier, url |-> cleanProxyBase,
                   outcome |-> outcome, ok |-> good])
           /\ IF good
              THEN /\ statusCalls' = Notify(IF nowPublic THEN "public" ELSE "custom")
                   /\ fResult' = [kind |-> "resolved", body |-> text, error |-> NoError]
                   /\ fpc' = "resolved"
                   /\ UNCHANGED <<lastError, fIdx>>
              ELSE /\ lastError' = (IF Threw(outcome) /\ lastError = NoError
                                    THEN ErrorOf(outcome, cleanProxyBase)
                                    ELSE lastError)
                   /\ fIdx' = fIdx + 1
                   /\ UNCHANGED <<statusCalls, fResult, fpc>>
    /\ UNCHANGED <<MEMORY_NOMAD_KEY, MEMORY_NOMAD_URL, statusCallback, dbSettings,
                   fSettings, proxies>>
    /\ UNCHANGED <<appVars, otherVars>>

\* One turn of the loop over proxies: the request and what follows it.
ProxyAttempt(outcome) ==
    /\ fpc = "loop"
    /\ fIdx <= Len(proxies)
    /\ LET cleanProxyBase == Trim(proxies[fIdx].url)
           nowPublic == usedPublic \/ isPublic(cleanProxyBase)
           text == BodyOf(outcome, cleanProxyBase)
           good == ~Threw(outcome) /\ isValidResponse(text)
       IN  /\ usedPublic' = nowPublic
           /\ attempts' = Append(attempts,
                  [tier |-> proxies[fIdx].tier, url |-> cleanProxyBase,
                   outcome |-> outcome, ok |-> good])
           /\ IF good
              THEN /\ statusCalls' = Notify(IF nowPublic THEN "public" ELSE "custom")
                   /\ fResult' = [kind |-> "resolved", body |-> text, error |-> NoError]
                   /\ fpc' = "resolved"
                   /\ UNCHANGED <<lastError, fIdx>>
              ELSE /\ lastError' = (IF Threw(outcome)
                                    THEN ErrorOf(outcome, cleanProxyBase)
                                    ELSE lastError)
                   /\ fIdx' = fIdx + 1
                   /\ UNCHANGED <<statusCalls, fResult, fpc>>
    /\ UNCHANGED <<MEMORY_NOMAD_KEY, MEMORY_NOMAD_URL, statusCallback, dbSettings,
                   fSettings, proxies>>
    /\ UNCHANGED <<appVars, otherVars>>

\* FetchTextExhausted starting the loop over proxies again instead of throwing.
FetchTextExhaustedRetrying ==
    /\ fpc = "loop"
    /\ fIdx > Len(proxies)
    /\ fIdx' = 1
    /\ UNCHANGED <<MEMORY_NOMAD_KEY, MEMORY_NOMAD_URL, statusCallback, dbSettings,
                   fSettings, proxies, lastError, usedPublic, attempts, statusCalls,
                   fResult, fpc>>
    /\ UNCHANGED <<appVars, otherVars>>

\* FetchTextExhausted throwing without statusCallback('none').
FetchTextExhaustedSilent ==
    /\ fpc = "loop"
    /\ fIdx > Len(proxies)
    /\ fResult' = [kind |-> "rejected", body |-> <<>>,
                   error |-> IF lastError # NoError THEN lastError ELSE GenericError]
    /\ fpc' = "rejected"
    /\ UNCHANGED <<MEMORY_NOMAD_KEY, MEMORY_NOMAD_URL, statusCallback, dbSettings,
                   fSettings, proxies, fIdx, lastError, usedPublic, attempts,
                   statusCalls>>
    /\ UNCHANGED <<appVars, otherVars>>

\* After the loop: the 'none' status and the rejection.
FetchTextExhausted ==
    /\ fpc = "loop"
    /\ fIdx > Len(proxies)
    /\ statusCalls' = Notify("none")
    /\ fResult' = [kind |-> "rejected", body |-> <<>>,
                   error |-> IF lastError # NoError THEN lastError ELSE GenericError]
    /\ fpc' = "rejected"
    /\ UNCHANGED <<MEMORY_NOMAD_KEY, MEMORY_NOMAD_URL, statusCallback, dbSettings,
                   fSettings, proxies, fIdx, lastError, usedPublic, attempts>>
    /\ UNCHANGED <<appVars, otherVars>>

\* ------------------------------------------------------------------------ App

callVars == <<fpc, fSettings, proxies, fIdx, lastError, usedPublic, attempts,
              statusCalls, fResult>>

sessionVars == <<isDbReady, hasUser, isAuthenticated, sessionKey, authError, dbAuth>>

memoryVars == <<MEMORY_NOMAD_KEY, MEMORY_NOMAD_URL, MEMORY_API_KEY, GEMINI_API_KEY>>

\* What the user can type into the login form.
Usernames == {"alice", "bob"}
Passwords == {"pw1", "pw2"}

\* dbService.getUser: the records of the 'auth' store under the key, {} if none.
getUser(username) == {r \in dbAuth : r.username = username}

\* dbService.hasUsers
hasUsers == dbAuth # {}

NoAuth == [username |-> "", password |-> "", flow |-> "none", hadUsers |-> FALSE]

\* url ? url.trim() : null
NomadUrlValue(url) == IF url # <<>> THEN Trim(url) ELSE Null

\* The methods each service object defines.
Methods ==
    [youtubeService |-> {"setApiKey", "getApiKey", "getChannelUploadsId", "getVideos",
                         "fetchViaApi", "fetchViaRSS"},
     vimeoService |-> {"getVideos"},
     dailymotionService |-> {"getVideos"},
     proxyService |-> {"setNomadKey", "setNomadUrl", "onProxyStatusChange",
                       "testConnection", "fetchText"},
     geminiService |-> {"setApiKey", "getApiKey"}]

\* Calling a method the object does not define throws a TypeError.
Defined(call) == call.method \in Methods[call.service]

\* The mount effect: dbService.init, hasUsers, and the proxy status listener.
AppInitEffect ==
    /\ ~isDbReady
    /\ hasUser' = hasUsers
    /\ isDbReady' = TRUE
    /\ statusCallback' = TRUE
    /\ lastOp' = "init"
    /\ UNCHANGED <<isAuthenticated, sessionKey, authError, dbAuth, memoryVars,
                   dbSettings, callVars, snap, lastAuth, regThenLogout, otherVars>>

\* The effect on [isAuthenticated, sessionKey]: every stored secret the key
\* decrypts goes to its service.  vimeoService.setToken and
\* dailymotionService.setToken throw inside their own try blocks.
initializeSecureServices(key) ==
    LET settings == OrEmpty(dbSettings)
        Usable(blob) == dbSettings # Undefined /\ blob # NoBlob /\ Decrypts(blob, key)
    IN  /\ MEMORY_NOMAD_KEY' =
              (IF Usable(settings.nomadProxyKey)
               THEN NomadKeyValue(decryptData(settings.nomadProxyKey, key))
               ELSE MEMORY_NOMAD_KEY)
        /\ MEMORY_NOMAD_URL' =
              (IF settings.nomadUrl # <<>> THEN NomadUrlValue(settings.nomadUrl)
               ELSE MEMORY_NOMAD_URL)
        /\ MEMORY_API_KEY' =
              (IF Usable(settings.apiKey) THEN decryptData(settings.apiKey, key)
               ELSE MEMORY_API_KEY)
        /\ GEMINI_API_KEY' =
              (IF Usable(settings.geminiApiKey)
               THEN decryptData(settings.geminiApiKey, key)
               ELSE GEMINI_API_KEY)

\* AuthSucceeds without setSessionKey(key).
AuthSucceedsKeyNotSet(key) ==
    /\ UNCHANGED sessionKey
    /\ isAuthenticated' = TRUE
    /\ authError' = ""
    /\ initializeSecureServices(key)

\* setSessionKey(key); setIsAuthenticated(true), and the effect they trigger.
AuthSucceeds(key) ==
    /\ sessionKey' = key
    /\ isAuthenticated' = TRUE
    /\ authError' = ""
    /\ initializeSecureServices(key)

\* setAuthError(message) and nothing else.
AuthFails(message) ==
    /\ authError' = message
    /\ UNCHANGED <<isAuthenticated, sessionKey, memoryVars>>

\* LoginFlow opening a session for a username the store has no record of.
LoginFlowMissingUserAccepted(username, password) ==
    /\ UNCHANGED dbAuth
    /\ IF getUser(username) = {}
       THEN AuthSucceeds(deriveKey(password, generateSalt("salt1")))
       ELSE LET user == CHOOSE r \in getUser(username) : TRUE
                key == deriveKey(password, user.salt)
                verifier == createVerifier(key)
            IN  IF verifier = user.verifier
                THEN AuthSucceeds(key)
                ELSE AuthFails("Invalid credentials")

\* LoginFlow without the comparison of the verifiers.
LoginFlowNoCompare(username, password) ==
    /\ UNCHANGED dbAuth
    /\ IF getUser(username) = {}
       THEN AuthFails("User not found")
       ELSE LET user == CHOOSE r \in getUser(username) : TRUE
            IN  AuthSucceeds(deriveKey(password, user.salt))

\* The login flow of handleAuth.
LoginFlow(username, password) ==
    /\ UNCHANGED dbAuth
    /\ IF getUser(username) = {}
       THEN AuthFails("User not found")
       ELSE LET user == CHOOSE r \in getUser(username) : TRUE
                key == deriveKey(password, user.salt)
                verifier == createVerifier(key)
            IN  IF verifier = user.verifier
                THEN AuthSucceeds(key)
                ELSE AuthFails("Invalid credentials")

\* RegisterFlow storing the record with put instead of add.
RegisterFlowPut(username, password, random) ==
    LET salt == generateSalt(random)
        key == deriveKey(password, salt)
        verifier == createVerifier(key)
    IN  /\ dbAuth' = {r \in dbAuth : r.username # username} \cup
               {[username |-> username, salt |-> salt, verifier |-> verifier]}
        /\ AuthSucceeds(key)

\* The register flow of handleAuth.  The 'auth' store is keyed by username, so
\* add() rejects a second record under the same name and the catch reports it.
RegisterFlow(username, password, random) ==
    LET salt == generateSalt(random)
        key == deriveKey(password, salt)
        verifier == createVerifier(key)
    IN  IF getUser(username) # {}
        THEN /\ AuthFails("Authentication failed")
             /\ UNCHANGED dbAuth
        ELSE /\ dbAuth' = dbAuth \cup
                    {[username |-> username, salt |-> salt, verifier |-> verifier]}
             /\ AuthSucceeds(key)

\* Submitting the login form (rendered while !isAuthenticated).
handleAuth(username, password, random) ==
    /\ isDbReady
    /\ ~isAuthenticated
    /\ lastOp' = "auth"
    /\ lastAuth' = [username |-> username, password |-> password,
                    flow |-> IF username = "" \/ password = "" THEN "none"
                             ELSE IF hasUser THEN "login" ELSE "register",
                    hadUsers |-> hasUsers]
    /\ IF username = "" \/ password = ""
       THEN AuthFails("Please fill in all fields") /\ UNCHANGED dbAuth
       ELSE IF hasUser THEN LoginFlow(username, password)
            ELSE RegisterFlow(username, password, random)
    /\ UNCHANGED <<isDbReady, hasUser, statusCallback, dbSettings, callVars, snap,
                   regThenLogout, otherVars>>

\* The service calls of logout, in the order the code makes them.
LogoutCalls ==
    <<[service |-> "youtubeService", method |-> "setApiKey"],
      [service |-> "vimeoService", method |-> "setToken"],
      [service |-> "dailymotionService", method |-> "setToken"],
      [service |-> "proxyService", method |-> "setNomadKey"],
      [service |-> "geminiService", method |-> "setApiKey"]>>

\* Call i of logout runs iff no call before it threw, and completes iff defined.
Completes(i) == \A j \in 1..i : Defined(LogoutCalls[j])

\* logout: the state setters are queued before the first service call, so they
\* apply even when a later call throws.
logout ==
    /\ isAuthenticated
    /\ isAuthenticated' = FALSE
    /\ sessionKey' = NoKey
    /\ MEMORY_API_KEY' = (IF Completes(1) THEN <<>> ELSE MEMORY_API_KEY)
    /\ MEMORY_NOMAD_KEY' = (IF Completes(4) THEN NomadKeyValue(<<>>) ELSE MEMORY_NOMAD_KEY)
    /\ GEMINI_API_KEY' = (IF Completes(5) THEN <<>> ELSE GEMINI_API_KEY)
    /\ lastOp' = "logout"
    /\ regThenLogout' = (IF lastAuth.flow = "register"
                         THEN regThenLogout \cup {<<lastAuth.username, lastAuth.password>>}
                         ELSE regThenLogout)
    /\ UNCHANGED <<isDbReady, hasUser, authError, dbAuth, MEMORY_NOMAD_URL,
                   statusCallback, dbSettings, callVars, snap, lastAuth, otherVars>>

\* The page is loaded again: every module variable and every useState starts
\* over, the database stays.
Reload ==
    /\ isDbReady' = FALSE
    /\ hasUser' = FALSE
    /\ isAuthenticated' = FALSE
    /\ sessionKey' = NoKey
    /\ authError' = ""
    /\ MEMORY_NOMAD_KEY' = Null
    /\ MEMORY_NOMAD_URL' = Null
    /\ MEMORY_API_KEY' = Null
    /\ GEMINI_API_KEY' = Null
    /\ statusCallback' = FALSE
    /\ lastOp' = "reload"
    /\ UNCHANGED <<dbAuth, dbSettings, callVars, snap, lastAuth, regThenLogout,
                   otherVars>>

\* -------------------------------------------------------------- SettingsPanel

\* Encrypted storing the trimmed text as it is, under no key.
EncryptedAsPlaintext(text, key, iv) ==
    IF Trim(text) # <<>> THEN encryptData(Trim(text), NoKey, iv) ELSE NoBlob

\* text.trim() ? await encryptData(text.trim(), sessionKey) : undefined
Encrypted(text, key, iv) ==
    IF Trim(text) # <<>> THEN encryptData(Trim(text), key, iv) ELSE NoBlob

\* The record handleSaveCredentials writes, without the spread of what it read.
CredentialsRecordNoMerge(settings, apiKey, vimeoToken, dailymotionToken, key, ivs) ==
    [EmptySettings EXCEPT
        !.apiKey = Encrypted(apiKey, key, ivs[1]),
        !.vimeoToken = Encrypted(vimeoToken, key, ivs[2]),
        !.dailymotionToken = Encrypted(dailymotionToken, key, ivs[3])]

\* { ...settings, apiKey: encApiKey, vimeoToken: encVimeo, dailymotionToken: encDaily }
CredentialsRecord(settings, apiKey, vimeoToken, dailymotionToken, key, ivs) ==
    [OrEmpty(settings) EXCEPT
        !.apiKey = Encrypted(apiKey, key, ivs[1]),
        !.vimeoToken = Encrypted(vimeoToken, key, ivs[2]),
        !.dailymotionToken = Encrypted(dailymotionToken, key, ivs[3])]

\* { ...currentSettings, nomadProxyKey, nomadUrl, customProxyUrl, proxy1Url, proxy2Url }
NetworkRecord(settings, nomadKey, nomadUrl, customProxy, proxy1, proxy2, key, iv) ==
    [OrEmpty(settings) EXCEPT
        !.nomadProxyKey = Encrypted(nomadKey, key, iv),
        !.nomadUrl = Trim(nomadUrl),
        !.customProxyUrl = Trim(customProxy),
        !.proxy1Url = Trim(proxy1),
        !.proxy2Url = Trim(proxy2)]

\* { ...settings, feedCacheDuration: duration }
CacheRecord(settings, duration) ==
    [OrEmpty(settings) EXCEPT !.feedCacheDuration = duration]

Idle == [busy |-> FALSE, settings |-> Undefined]
Flows == {"credentials", "network"}

\* A handler up to its first await: await dbService.getSettings() || {}
BeginSave(flow) ==
    /\ isAuthenticated
    /\ sessionKey # NoKey
    /\ ~snap[flow].busy
    /\ snap' = [snap EXCEPT ![flow] = [busy |-> TRUE, settings |-> dbSettings]]
    /\ lastOp' = "getSettings"
    /\ UNCHANGED <<sessionVars, memoryVars, statusCallback, dbSettings, callVars,
                   lastAuth, regThenLogout, otherVars>>

\* handleSaveCredentials from the settings it read: the write, then the services.
\* vimeoService.setToken throws after youtubeService.setApiKey has run.
SaveCredentialsWith(settings, apiKey, vimeoToken, dailymotionToken, ivs) ==
    /\ dbSettings' = {CredentialsRecord(settings, apiKey, vimeoToken,
                                        dailymotionToken, sessionKey, ivs)}
    /\ MEMORY_API_KEY' = Trim(apiKey)
    /\ lastOp' = "saveCredentials"
    /\ UNCHANGED <<sessionVars, MEMORY_NOMAD_KEY, MEMORY_NOMAD_URL, GEMINI_API_KEY,
                   statusCallback, callVars, lastAuth, regThenLogout, otherVars>>

\* handleSaveNetwork from the settings it read: the services, then the write.
SaveNetworkWith(settings, nomadKey, nomadUrl, customProxy, proxy1, proxy2, iv) ==
    /\ MEMORY_NOMAD_KEY' = NomadKeyValue(Trim(nomadKey))
    /\ MEMORY_NOMAD_URL' = NomadUrlValue(Trim(nomadUrl))
    /\ dbSettings' = {NetworkRecord(settings, nomadKey, nomadUrl, customProxy,
                                    proxy1, proxy2, sessionKey, iv)}
    /\ lastOp' = "saveNetwork"
    /\ UNCHANGED <<sessionVars, MEMORY_API_KEY, GEMINI_API_KEY, statusCallback,
                   callVars, lastAuth, regThenLogout, otherVars>>

\* handleCacheChange from the settings it read.
SaveCacheWith(settings, duration) ==
    /\ dbSettings' = {CacheRecord(settings, duration)}
    /\ lastOp' = "saveCache"
    /\ UNCHANGED <<sessionVars, memoryVars, statusCallback, callVars, lastAuth,
                   regThenLogout, otherVars>>

\* The handlers run to completion with nothing in between.
handleSaveCredentials(apiKey, vimeoToken, dailymotionToken, ivs) ==
    /\ isAuthenticated
    /\ sessionKey # NoKey
    /\ SaveCredentialsWith(dbSettings, apiKey, vimeoToken, dailymotionToken, ivs)
    /\ UNCHANGED snap

handleSaveNetwork(nomadKey, nomadUrl, customProxy, proxy1, proxy2, iv) ==
    /\ isAuthenticated
    /\ sessionKey # NoKey
    /\ SaveNetworkWith(dbSettings, nomadKey, nomadUrl, customProxy, proxy1, proxy2, iv)
    /\ UNCHANGED snap

handleCacheChange(duration) ==
    /\ isAuthenticated
    /\ sessionKey # NoKey
    /\ SaveCacheWith(dbSettings, duration)
    /\ UNCHANGED snap

\* The handlers after their first await, other handlers having run meanwhile.
CommitCredentials(apiKey, vimeoToken, dailymotionToken, ivs) ==
    /\ snap["credentials"].busy
    /\ SaveCredentialsWith(snap["credentials"].settings, apiKey, vimeoToken,
                           dailymotionToken, ivs)
    /\ snap' = [snap EXCEPT !["credentials"] = Idle]

CommitNetwork(nomadKey, nomadUrl, customProxy, proxy1, proxy2, iv) ==
    /\ snap["network"].busy
    /\ SaveNetworkWith(snap["network"].settings, nomadKey, nomadUrl, customProxy,
                       proxy1, proxy2, iv)
    /\ snap' = [snap EXCEPT !["network"] = Idle]

\* ---- proxyService.testConnection and the Test button

\* How a test request ends: a response with a status and a body, or fetch
\* rejecting with a TypeError whose message is the browser's own ('Failed to
\* fetch' in Chromium, the other two in Firefox and Safari).
TestStatuses == {200, 401, 403, 404, 500, 503}
TestBodies == {<<>>, <<"Success">>, <<"<", "HTML", ">">>, <<"<", "html", ">">>, <<"ok">>}
FetchTypeErrors ==
    {"Failed to fetch", "NetworkError when attempting to fetch resource.", "Load failed"}
TestOutcomes ==
    [kind : {"response"}, status : TestStatuses, body : TestBodies, message : {""}]
    \cup [kind : {"typeerror"}, status : {0}, body : {<<>>}, message : FetchTypeErrors]

NoOutcome == [kind |-> "none", status |-> 0, body |-> <<>>, message |-> ""]

\* An Error: its name, its message and the status the message quotes.
TestError(name, message, status) == [name |-> name, message |-> message, status |-> status]
NoTestError == TestError("", "", 0)

\* text.toLowerCase()
ToLowerCase(text) == [i \in 1..Len(text) |-> IF text[i] = "HTML" THEN "html" ELSE text[i]]

\* res.ok
ResOk(status) == status >= 200 /\ status <= 299

\* What the try block of testConnection throws, NoTestError if it completes.
TestThrows(url, key, net) ==
    LET cleanUrl == IF url # <<>> THEN Trim(url) ELSE <<>>
    IN  IF cleanUrl = <<>> THEN TestError("Error", "Worker URL is empty", 0)
        ELSE IF net.kind = "typeerror" THEN TestError("TypeError", net.message, 0)
        ELSE IF net.status = 403 \/ net.status = 401
             THEN TestError("Error", "Invalid Key (403)", 0)
        ELSE IF net.status >= 500
             THEN TestError("Error", "Server Error - Worker may be blocked by target", net.status)
        ELSE IF ~ResOk(net.status) THEN TestError("Error", "HTTP Error", net.status)
        ELSE IF net.body = <<>> THEN TestError("Error", "Empty Response", 0)
        ELSE IF ~Includes(net.body, "Success") /\ ~Includes(ToLowerCase(net.body), "html")
             THEN TestError("Error", "Invalid response content", 0)
        ELSE NoTestError

CorsNetworkError ==
    TestError("Error", "CORS/Network Error. Check Worker 'Allowed Origins' or Key.", 0)

\* testConnection: the error it rejects with, NoTestError when it resolves.
testConnection(url, key, net) ==
    LET e == TestThrows(url, key, net)
    IN  IF e.name = "TypeError" /\ e.message = "Failed to fetch" THEN CorsNetworkError
        ELSE e

NoTest == [testStatus |-> "idle", testMsg |-> "", error |-> NoTestError, net |-> NoOutcome]

\* The worker URLs the network form can hold.
TestUrls == {<<>>, WorkerUrl, <<" ">> \o WorkerUrl \o <<"/">>}

\* handleTestNomad: the test with the form's URL (or the default) and key; on
\* success the key and URL go to proxyService's memory.
handleTestNomad(nomadKey, nomadUrl, net) ==
    /\ isAuthenticated
    /\ Trim(nomadKey) # <<>>
    /\ LET url == IF Trim(nomadUrl) # <<>> THEN Trim(nomadUrl) ELSE DEFAULT_NOMAD_URL
           e == testConnection(url, Trim(nomadKey), net)
       IN  IF e = NoTestError
           THEN /\ tc' = [testStatus |-> "success", testMsg |-> "", error |-> e, net |-> net]
                /\ MEMORY_NOMAD_KEY' = NomadKeyValue(Trim(nomadKey))
                /\ MEMORY_NOMAD_URL' = NomadUrlValue(url)
           ELSE /\ tc' = [testStatus |-> "error", testMsg |-> e.message, error |-> e,
                          net |-> net]
                /\ UNCHANGED <<MEMORY_NOMAD_KEY, MEMORY_NOMAD_URL>>
    /\ lastOp' = "testNomad"
    /\ UNCHANGED <<sessionVars, MEMORY_API_KEY, GEMINI_API_KEY, statusCallback, dbSettings,
                   callVars, snap, lastAuth, regThenLogout, cacheVars, viewerVars,
                   cryptoVars, exported, restVars>>

\* ---- services/db: tags, media items, watch later

\* The stores deleteTag cascades over.
Stores == {"channels", "playlists", "favorites"}

\* DEFAULT_TAGS as seeded, of which the model keeps two: autoIncrement gave
\* them the ids 1 and 2.
SeededTags == {[id |-> 1, name |-> "Documentary"], [id |-> 2, name |-> "Education"]}

\* DEFAULT_CHANNELS as seeded, of which the model keeps one.
SeededChannel == [id |-> 1, name |-> "ARTE.tv", tags |-> <<"Documentary", "Education">>]

\* The database after the upgrade that seeds it, and App after its first loadData.
InitLibrary ==
    /\ dbTags = SeededTags
    /\ dbMedia = [s \in Stores |-> IF s = "channels" THEN {SeededChannel} ELSE {}]
    /\ dbWatchLater = {}
    /\ tags = {r.name : r \in SeededTags}
    /\ watchLater = {}
    /\ reloads = 0
    /\ deletedTag = ""

\* store.put(item) for every item of a backup's store whose keyPath is 'id'.
PutById(store, items) ==
    {r \in store : \A item \in items : item.id # r.id} \cup items

\* The 'name' index of the tags store is unique: a put that would leave two
\* records with one name fails, and the transaction aborts.
NameIndexHolds(store) == \A a, b \in store : a.name = b.name => a = b

\* The key an autoIncrement store generates for a record added without one.
NextId(store) ==
    IF store = {} THEN 1
    ELSE 1 + (CHOOSE n \in {r.id : r \in store} : \A r \in store : r.id <= n)

\* tags.filter(t => t !== tagName)
FilterTag(tagList, tagName) == SelectSeq(tagList, LAMBDA t : t # tagName)

\* getTagByName: the record the 'name' index holds for name, if any.
getTagByName(name) == {r \in dbTags : r.name = name}

\* The cursor of deleteTag over one store: tagName is filtered out of every
\* item that carries it, and the item is written back.
CascadeDelete(store, tagName) ==
    {[item EXCEPT !.tags = FilterTag(@, tagName)] : item \in store}

\* dbService.deleteTag(tagName): nothing is done when the tags store holds no
\* record of that name; otherwise the record is deleted and the cascade runs
\* over channels, playlists and favorites in the same transaction.
deleteTag(tagName) ==
    /\ deletedTag' = tagName
    /\ IF getTagByName(tagName) = {}
       THEN UNCHANGED <<dbTags, dbMedia>>
       ELSE /\ dbTags' = dbTags \ getTagByName(tagName)
            /\ dbMedia' = [s \in Stores |-> CascadeDelete(dbMedia[s], tagName)]

\* ---- App: the library handlers

MaxReloads == 2
MaxItems == 2
MaxWatchLater == 2

\* The videos a feed lists, by id.
Videos == {"v1", "v2"}

\* TagInput: the tags the form can select are those of App's tags state.
SelectableTags == {<<>>} \cup {<<t>> : t \in tags}

\* storeMap of handleSaveItem
StoreOfType == [channel |-> "channels", playlist |-> "playlists", video |-> "favorites"]

\* handleSaveItem, no item being edited: the new item is added to the store of
\* its type, then loadData() is started and not awaited.
handleSaveItem(type, selectedTags) ==
    /\ isAuthenticated
    /\ reloads < MaxReloads
    /\ Cardinality(UNION {dbMedia[s] : s \in Stores}) < MaxItems
    /\ dbMedia' = [dbMedia EXCEPT ![StoreOfType[type]] =
                      @ \cup {[id |-> NextId(@), name |-> "added",
                               tags |-> selectedTags]}]
    /\ reloads' = reloads + 1
    /\ lastOp' = "saveItem"
    /\ UNCHANGED <<sessionVars, memoryVars, statusCallback, dbSettings, callVars,
                   snap, lastAuth, regThenLogout, cacheVars, viewerVars,
                   cryptoVars, panelVars, initVars, dashVars, dbTags,
                   dbWatchLater, tags, watchLater, deletedTag>>

\* handleDeleteTag, confirmed, from the delete button the sidebar renders for
\* each tag of App's tags state: dbService.deleteTag(tag) is awaited, then
\* loadData() is started and not awaited.
handleDeleteTag(tag) ==
    /\ isAuthenticated
    /\ tag \in tags
    /\ reloads < MaxReloads
    /\ deleteTag(tag)
    /\ reloads' = reloads + 1
    /\ lastOp' = "deleteTag"
    /\ UNCHANGED <<sessionVars, memoryVars, statusCallback, dbSettings, callVars,
                   snap, lastAuth, regThenLogout, cacheVars, viewerVars,
                   cryptoVars, panelVars, initVars, dashVars, dbWatchLater, tags,
                   watchLater>>

\* watchLater.some(w => w.sourceId === video.id), over App's watchLater state
ExistsInWatchLater(video) == \E w \in watchLater : w.sourceId = video

\* handleAddToWatchLater(video): nothing when the watchLater state already
\* lists the video; otherwise the entry is added under a generated key, then
\* loadData() is started and not awaited.
handleAddToWatchLater(video) ==
    /\ isAuthenticated
    /\ reloads < MaxReloads
    /\ Cardinality(dbWatchLater) < MaxWatchLater
    /\ IF ExistsInWatchLater(video)
       THEN UNCHANGED <<dbWatchLater, reloads>>
       ELSE /\ dbWatchLater' = dbWatchLater \cup
                                  {[id |-> NextId(dbWatchLater), sourceId |-> video]}
            /\ reloads' = reloads + 1
    /\ lastOp' = "addToWatchLater"
    /\ UNCHANGED <<sessionVars, memoryVars, statusCallback, dbSettings, callVars,
                   snap, lastAuth, regThenLogout, cacheVars, viewerVars,
                   cryptoVars, panelVars, initVars, dashVars, dbTags, dbMedia,
                   tags, watchLater, deletedTag>>

\* A loadData() call resolves: the getAll results replace App's state.
loadDataResolves ==
    /\ reloads > 0
    /\ tags' = {r.name : r \in dbTags}
    /\ watchLater' = dbWatchLater
    /\ reloads' = reloads - 1
    /\ lastOp' = "loadData"
    /\ UNCHANGED <<sessionVars, memoryVars, statusCallback, dbSettings, callVars,
                   snap, lastAuth, regThenLogout, cacheVars, viewerVars,
                   cryptoVars, panelVars, initVars, dashVars, dbTags, dbMedia,
                   dbWatchLater, deletedTag>>

\* ---- backup

NoExport == [status |-> "idle", auth |-> {}, channels |-> {}, settings |-> {}]

\* dbService.exportFullDB: getAll of every store.
exportFullDB == [auth |-> dbAuth, channels |-> {dbItem}, settings |-> dbSettings]

\* handleExport: the stores are read and written to the downloaded file.
handleExport ==
    /\ isAuthenticated
    /\ exported' = [status |-> "success", auth |-> exportFullDB.auth,
                    channels |-> exportFullDB.channels, settings |-> exportFullDB.settings]
    /\ lastOp' = "export"
    /\ UNCHANGED <<sessionVars, memoryVars, statusCallback, dbSettings, callVars, snap,
                   lastAuth, regThenLogout, cacheVars, viewerVars, cryptoVars, tc,
                   restVars>>

\* A backup file written by handleExport on another installation: alice
\* registered there with another password, her keys saved under that key.
BackupSalt == generateSalt("salt2")
BackupKey == deriveKey("pw2", BackupSalt)
BackupUser == [username |-> "alice", salt |-> BackupSalt,
               verifier |-> createVerifier(BackupKey)]
BackupSettings ==
    [EmptySettings EXCEPT !.apiKey = encryptData(<<"yt2">>, BackupKey, "iv2"),
                          !.geminiApiKey = encryptData(<<"gm2">>, BackupKey, "iv2")]
Backups == [auth : {{}, {BackupUser}}, settings : {{}, {BackupSettings}},
            tags : {{}}, channels : {{}}]

\* store.put(item) for every item of the backup's 'auth' store: a record under
\* a username the store holds replaces the stored one.
PutUsers(store, items) ==
    {r \in store : \A item \in items : item.username # r.username} \cup items

\* handleFileChange: dbService.importFullDB(data), the stores of the backup put
\* over the stored ones in one transaction, which aborts as a whole when a put
\* fails.  App's state is not read again ('Reload required').
importFullDB(data) ==
    /\ isAuthenticated
    /\ sessionKey # NoKey
    /\ IF NameIndexHolds(PutById(dbTags, data.tags))
       THEN /\ dbAuth' = PutUsers(dbAuth, data.auth)
            /\ dbSettings' = (IF data.settings # {} THEN data.settings ELSE dbSettings)
            /\ dbTags' = PutById(dbTags, data.tags)
            /\ dbMedia' = [dbMedia EXCEPT
                              !["channels"] = PutById(@, data.channels)]
       ELSE UNCHANGED <<dbAuth, dbSettings, dbTags, dbMedia>>
    /\ lastOp' = "import"
    /\ UNCHANGED <<isDbReady, hasUser, isAuthenticated, sessionKey, authError,
                   memoryVars, statusCallback, callVars, snap, lastAuth,
                   regThenLogout, cacheVars, viewerVars, cryptoVars, panelVars,
                   initVars, dashVars, dbWatchLater, tags, watchLater, reloads,
                   deletedTag>>

\* ------------------------------------------------- mediaResolver, youtubeService
\* One YouTube channel.  dbItem is its record in the 'channels' store, viewItem
\* the copy App holds in its channels state and hands to FeedViewer.  Time is
\* counted in hours.

DEFAULT_CACHE_DURATION == 8

\* The durations CACHE_OPTIONS offers, of which the model uses two.
CacheOptions == {8, 24}

MaxTime == 9
TickHours == {4}

UploadsId == "UU1"

\* type: 'channel' | 'playlist' | 'video'
ItemTypes == {"channel", "playlist", "video"}

NoItem == [type |-> "channel", cachedContent |-> <<>>, lastFetched |-> 0,
           uploadsPlaylistId |-> ""]

\* A newly added item of the type, as handleSaveItem stores it.
NewItem(type) == [NoItem EXCEPT !.type = type]

\* What fetchViaRSS returns for a single video: one entry built from the item.
VideoPreview == [ok |-> TRUE, videos |-> <<"v0">>]

\* What a request to a platform or to the RSS proxy chain comes back with.
Thrown == [ok |-> FALSE, videos |-> <<>>]
FetchOutcomes ==
    {Thrown} \cup {[ok |-> TRUE, videos |-> v] : v \in {<<>>, <<"v1">>, <<"v2", "v1">>}}

NoFetch == [at |-> 0, videos |-> <<>>]
NoCall == [forced |-> FALSE, fetched |-> FALSE, result |-> Thrown, before |-> NoItem,
           prior |-> NoFetch, uploadsSaved |-> FALSE, paths |-> <<>>]

\* settings?.feedCacheDuration || DEFAULT_CACHE_DURATION
CacheDuration(settings) ==
    IF OrEmpty(settings).feedCacheDuration # 0
    THEN OrEmpty(settings).feedCacheDuration ELSE DEFAULT_CACHE_DURATION

\* CacheHit without the test of forceRefresh.
CacheHitIgnoringForce(item, forceRefresh, settings, t) ==
    /\ item.cachedContent # <<>>
    /\ item.lastFetched # 0
    /\ t - item.lastFetched < CacheDuration(settings)

\* !forceRefresh && item.cachedContent && item.lastFetched
\*   && now - item.lastFetched < cacheDuration
CacheHit(item, forceRefresh, settings, t) ==
    /\ ~forceRefresh
    /\ item.cachedContent # <<>>
    /\ item.lastFetched # 0
    /\ t - item.lastFetched < CacheDuration(settings)

KeyPresent == MEMORY_API_KEY # Null /\ MEMORY_API_KEY # <<>>

\* fetchViaApi for a channel: whether it resolved the uploads playlist and
\* saved it with the item it was given.
ApiSavesUploadsId(item, uploads) ==
    KeyPresent /\ item.type = "channel" /\ item.uploadsPlaylistId = "" /\ uploads = "ok"

\* fetchViaApi: what it returns, Thrown when it throws.  Only a channel needs
\* its uploads playlist resolved first.
fetchViaApi(item, uploads, api) ==
    IF item.type = "channel" /\ item.uploadsPlaylistId = "" /\ uploads # "ok"
    THEN Thrown ELSE api

\* fetchViaRSS: the feed through the proxy chain; a single video has no feed.
fetchViaRSS(item, rss) == IF item.type \in {"channel", "playlist"} THEN rss ELSE VideoPreview

\* youtubeService.getVideos, the strategies it runs in order and whether each
\* returned: fetchViaApi under if (MEMORY_API_KEY), and fetchViaRSS unless the
\* API call returned.
PathsTried(item, uploads, api, rss) ==
    LET viaApi == [path |-> "api", ok |-> fetchViaApi(item, uploads, api).ok]
        viaRss == [path |-> "rss", ok |-> fetchViaRSS(item, rss).ok]
    IN  IF ~KeyPresent THEN <<viaRss>>
        ELSE IF viaApi.ok THEN <<viaApi>>
        ELSE <<viaApi, viaRss>>

\* youtubeService.getVideos without the catch around fetchViaApi.
youtubeGetVideosNoFallback(item, uploads, api, rss) ==
    IF KeyPresent THEN fetchViaApi(item, uploads, api) ELSE fetchViaRSS(item, rss)

\* youtubeService.getVideos: the API when a key is held, RSS when it throws.
youtubeGetVideos(item, uploads, api, rss) ==
    IF KeyPresent /\ fetchViaApi(item, uploads, api).ok
    THEN fetchViaApi(item, uploads, api)
    ELSE fetchViaRSS(item, rss)

\* Cacheable for channels alone.
CacheableChannelOnly(item) == item.type = "channel"

\* Cacheable with the test of the item's type left out.
CacheableAnyType(item) == TRUE

\* item.type === 'channel' || item.type === 'playlist'
Cacheable(item) == item.type \in {"channel", "playlist"}

\* videos.length > 0 && (item.type === 'channel' || item.type === 'playlist')
CachedList(item, videos) == videos # <<>> /\ Cacheable(item)

\* App.loadData: the channels state is read again from the store.
loadData ==
    /\ isAuthenticated
    /\ viewItem' = dbItem
    /\ lastOp' = "loadData"
    /\ UNCHANGED <<sessionVars, memoryVars, statusCallback, dbSettings, callVars,
                   snap, lastAuth, regThenLogout, dbItem, now, gv, netFetch,
                   viewerVars, cryptoVars, panelVars, restVars>>

Tick(hours) ==
    /\ now + hours <= MaxTime
    /\ now' = now + hours
    /\ lastOp' = "tick"
    /\ UNCHANGED <<sessionVars, memoryVars, statusCallback, dbSettings, callVars,
                   snap, lastAuth, regThenLogout, dbItem, viewItem, gv, netFetch,
                   viewerVars, cryptoVars, panelVars, restVars>>

\* FeedViewer.loadContent(forceRefresh): mediaResolver.getVideos(item, forceRefresh)
\* on the item FeedViewer was given, with every store write the call makes.
getVideos(forceRefresh, uploads, api, rss) ==
    /\ isAuthenticated
    /\ lastOp' = "getVideos"
    /\ IF CacheHit(viewItem, forceRefresh, dbSettings, now)
       THEN /\ gv' = [forced |-> forceRefresh, fetched |-> FALSE,
                      result |-> [ok |-> TRUE, videos |-> viewItem.cachedContent],
                      before |-> dbItem, prior |-> netFetch,
                      uploadsSaved |-> FALSE, paths |-> <<>>]
            /\ UNCHANGED <<dbItem, netFetch>>
       ELSE LET videos == youtubeGetVideos(viewItem, uploads, api, rss)
                afterApi == IF ApiSavesUploadsId(viewItem, uploads)
                            THEN [viewItem EXCEPT !.uploadsPlaylistId = UploadsId]
                            ELSE dbItem
            IN  /\ gv' = [forced |-> forceRefresh, fetched |-> TRUE,
                          result |-> videos, before |-> dbItem, prior |-> netFetch,
                          uploadsSaved |-> ApiSavesUploadsId(viewItem, uploads),
                          paths |-> PathsTried(viewItem, uploads, api, rss)]
                /\ IF videos.ok /\ CachedList(viewItem, videos.videos)
                   THEN /\ dbItem' = [viewItem EXCEPT !.cachedContent = videos.videos,
                                                      !.lastFetched = now]
                        /\ netFetch' = [at |-> now, videos |-> videos.videos]
                   ELSE /\ dbItem' = afterApi
                        /\ UNCHANGED netFetch
    /\ UNCHANGED <<sessionVars, memoryVars, statusCallback, dbSettings, callVars,
                   snap, lastAuth, regThenLogout, viewItem, now, viewerVars,
                   cryptoVars, panelVars, restVars>>

\* ------------------------------------------- cryptoService and the settings store

\* The texts, keys and ivs the exercise draws from.
Plaintexts ==
    {<<>>, <<"sk1">>, <<"sk1", " ", "sk2">>, <<BOM, "sk1">>, <<"sk1", BOM>>,
     <<"sk1", LoneSurrogate>>, <<Replacement, "sk1">>}
CryptoKeys ==
    {deriveKey(pw, generateSalt(random)) : pw \in {"pw1", "pw2"}, random \in Salts}

NoExercise == [stage |-> "none", text |-> <<>>, key |-> NoKey, iv |-> "", blob |-> NoBlob,
               with |-> NoKey, out |-> <<>>]

\* What was done to a blob between encryptData and decryptData: a byte of the
\* iv or of the ciphertext changed.  No key authenticates changed ciphertext.
AlteredIv(data) ==
    [data EXCEPT !.iv = arrayBufferToBase64(
        IF base64ToArrayBuffer(data.iv) = "iv1" THEN "iv2" ELSE "iv1")]
AlteredCiphertext(data) ==
    [data EXCEPT !.ciphertext = arrayBufferToBase64(
        [base64ToArrayBuffer(data.ciphertext) EXCEPT !.key = NoKey])]

\* await cryptoService.encryptData(text, key)
Encrypt ==
    /\ cx.stage = "input"
    /\ cx' = [cx EXCEPT !.stage = "encrypted", !.blob = encryptData(cx.text, cx.key, cx.iv)]
    /\ UNCHANGED <<proxyVars, appVars, cacheVars, viewerVars, panelVars, restVars>>

\* dbService.saveSettings({ ...settings, apiKey: blob })
StoreBlob ==
    /\ cx.stage = "encrypted"
    /\ cx' = [cx EXCEPT !.stage = "stored", !.blob = NoBlob]
    /\ dbSettings' = {[OrEmpty(dbSettings) EXCEPT !.apiKey = cx.blob]}
    /\ UNCHANGED <<MEMORY_NOMAD_KEY, MEMORY_NOMAD_URL, statusCallback, fpc, fSettings,
                   proxies, fIdx, lastError, usedPublic, attempts, statusCalls,
                   fResult>>
    /\ UNCHANGED <<appVars, cacheVars, viewerVars, panelVars, restVars>>

\* (await dbService.getSettings()).apiKey
LoadBlob ==
    /\ cx.stage = "stored"
    /\ cx' = [cx EXCEPT !.stage = "loaded", !.blob = OrEmpty(dbSettings).apiKey]
    /\ UNCHANGED <<proxyVars, appVars, cacheVars, viewerVars, panelVars, restVars>>

\* The blob is changed outside the program before it is decrypted.
Alter(how) ==
    /\ cx.stage \in {"encrypted", "loaded"}
    /\ cx' = [cx EXCEPT !.stage = "altered",
                        !.blob = IF how = "iv" THEN AlteredIv(cx.blob)
                                 ELSE AlteredCiphertext(cx.blob)]
    /\ UNCHANGED <<proxyVars, appVars, cacheVars, viewerVars, panelVars, restVars>>

\* await cryptoService.decryptData(blob, key)
Decrypt(key) ==
    /\ cx.stage \in {"encrypted", "loaded", "altered"}
    /\ cx' = [cx EXCEPT !.stage = "decrypted", !.with = key,
                        !.out = decryptData(cx.blob, key)]
    /\ UNCHANGED <<proxyVars, appVars, cacheVars, viewerVars, panelVars, restVars>>

\* ------------------------------------------------------------------ FeedViewer

\* The sources of the sidebar and the lists their feeds can hold.
Sources == {"A", "B"}
FeedOf == [A |-> {<<"a1">>, <<"a2", "a1">>}, B |-> {<<"b1">>, <<"b2", "b1">>}]

\* The loadContent calls that can be in flight at once.
MaxLoads == 3

\* FeedViewer before it is mounted: no item, useState([]), useState(false),
\* useState(null), useState(null).
NoViewer == [item |-> "none", items |-> <<>>, loading |-> FALSE, error |-> FALSE,
             lastFetchedTime |-> 0]

Without(seq, i) == SubSeq(seq, 1, i - 1) \o SubSeq(seq, i + 1, Len(seq))

\* setActiveView({ type, item, section }) from the sidebar or the dashboard:
\* FeedViewer is given the item and its effect on [item] runs, resetting the
\* list and calling loadContent(false).  The instance is the same one whenever
\* a feed was already shown.
ViewSource(source) ==
    /\ isAuthenticated
    /\ viewer.item # source
    /\ Len(loads) < MaxLoads
    /\ viewer' = [item |-> source, items |-> <<>>, loading |-> TRUE, error |-> FALSE,
                  lastFetchedTime |-> 0]
    /\ loads' = Append(loads, [source |-> source, forceRefresh |-> FALSE])
    /\ UNCHANGED <<proxyVars, appVars, cacheVars, cryptoVars, panelVars, restVars>>

\* The Refresh button (disabled while loading): loadContent(true).
Refresh ==
    /\ viewer.item # "none"
    /\ ~viewer.loading
    /\ Len(loads) < MaxLoads
    /\ viewer' = [viewer EXCEPT !.loading = TRUE, !.error = FALSE]
    /\ loads' = Append(loads, [source |-> viewer.item, forceRefresh |-> TRUE])
    /\ UNCHANGED <<proxyVars, appVars, cacheVars, cryptoVars, panelVars, restVars>>

\* loadContent after its await, when getVideos resolved: setItems(videoItems),
\* setLastFetchedTime on a forced call, setLoading(false).
LoadResolves(i, videoItems) ==
    /\ i \in 1..Len(loads)
    /\ videoItems \in FeedOf[loads[i].source]
    /\ viewer' = [viewer EXCEPT !.items = videoItems,
                                !.lastFetchedTime = IF loads[i].forceRefresh THEN now ELSE @,
                                !.loading = FALSE]
    /\ loads' = Without(loads, i)
    /\ UNCHANGED <<proxyVars, appVars, cacheVars, cryptoVars, panelVars, restVars>>

\* loadContent after its await, when getVideos rejected: setError, setLoading(false).
LoadRejects(i) ==
    /\ i \in 1..Len(loads)
    /\ viewer' = [viewer EXCEPT !.error = TRUE, !.loading = FALSE]
    /\ loads' = Without(loads, i)
    /\ UNCHANGED <<proxyVars, appVars, cacheVars, cryptoVars, panelVars, restVars>>

\* setActiveView to a view without a feed: FeedViewer is unmounted, and what
\* its calls in flight set afterwards is set on no instance.
CloseViewer ==
    /\ viewer.item # "none"
    /\ viewer' = NoViewer
    /\ loads' = <<>>
    /\ UNCHANGED <<proxyVars, appVars, cacheVars, cryptoVars, panelVars, restVars>>

\* ---------------------------------------------------------- RandomDiscovery

\* const CACHE_DURATION_MS = 8 * 60 * 60 * 1000, in hours.
CACHE_DURATION_MS == 8

\* The lists of latest videos a refresh can collect; <<>> when every fetch
\* failed or came back empty.
DiscoveryVideos == {<<>>, <<"v1">>, <<"v2", "v1">>}

\* No loadContent call is between its read of the settings and its write.
NoRefresh == [busy |-> FALSE, settings |-> Undefined, now |-> 0]

\* !forceRefresh && cache && cache.videos.length > 0
\*     && (now - cache.timestamp < CACHE_DURATION_MS)
DashboardCacheFresh(settings, forceRefresh) ==
    LET cache == OrEmpty(settings).dashboardCache
    IN  /\ ~forceRefresh
        /\ settings # Undefined
        /\ cache.videos # <<>>
        /\ now - cache.timestamp < CACHE_DURATION_MS

\* { ...(settings || {}), dashboardCache: { timestamp: now, videos: newVideos } }
DashboardRecord(settings, time, newVideos) ==
    [OrEmpty(settings) EXCEPT
        !.dashboardCache = [timestamp |-> time, videos |-> newVideos]]

\* loadContent up to its network fetches: the settings are read, and a fresh
\* cache is shown without fetching.
loadContentBegins(forceRefresh) ==
    /\ isAuthenticated
    /\ ~refresh.busy
    /\ refresh' = (IF DashboardCacheFresh(dbSettings, forceRefresh) THEN NoRefresh
                   ELSE [busy |-> TRUE, settings |-> dbSettings, now |-> now])
    /\ lastOp' = "loadContent"
    /\ UNCHANGED <<sessionVars, memoryVars, statusCallback, dbSettings, callVars,
                   snap, lastAuth, regThenLogout, cacheVars, viewerVars,
                   cryptoVars, panelVars, initVars, libraryVars>>

\* loadContent after Promise.all: with at least one video the settings it read
\* at its start are saved with the new dashboardCache; with none nothing is
\* written.
loadContentSaves(newVideos) ==
    /\ refresh.busy
    /\ dbSettings' = (IF newVideos # <<>>
                      THEN {DashboardRecord(refresh.settings, refresh.now, newVideos)}
                      ELSE dbSettings)
    /\ refresh' = NoRefresh
    /\ lastOp' = (IF newVideos # <<>> THEN "saveDashboard" ELSE "loadContent")
    /\ UNCHANGED <<sessionVars, memoryVars, statusCallback, callVars, snap,
                   lastAuth, regThenLogout, cacheVars, viewerVars, cryptoVars,
                   panelVars, initVars, libraryVars>>

\* ------------------------------- initializeSecureServices, await by await

\* The secrets of the settings record in the order initializeSecureServices
\* decrypts them.
InitSlots == <<"nomadProxyKey", "apiKey", "vimeoToken", "dailymotionToken",
               "geminiApiKey">>

\* The initializeSecureServices calls that can be in flight at once.
MaxInits == 2

\* The call is at its await of getSettings (at = 0) or of the decryptData of
\* InitSlots[at]; key is the sessionKey of the render whose effect started it.
StartedInit(key) == [key |-> key, at |-> 0, settings |-> EmptySettings]

\* The next decryptData the call awaits from slot i on: the first slot whose
\* blob is truthy, Len(InitSlots) + 1 when the call returns.
RECURSIVE NextAwait(_, _)
NextAwait(settings, i) ==
    IF i > Len(InitSlots) THEN i
    ELSE IF settings[InitSlots[i]] # NoBlob THEN i
         ELSE NextAwait(settings, i + 1)

\* The calls in flight once call i has moved on to slot next.
Advance(i, settings, next) ==
    IF next > Len(InitSlots) THEN Without(secureInit, i)
    ELSE [secureInit EXCEPT ![i] = [@ EXCEPT !.at = next, !.settings = settings]]

\* if (settings.nomadUrl) proxyService.setNomadUrl(settings.nomadUrl), which
\* follows the block of the worker key.
UrlAfterWorkerKey(settings) ==
    IF settings.nomadUrl # <<>> THEN NomadUrlValue(settings.nomadUrl)
    ELSE MEMORY_NOMAD_URL

\* Submitting the login form, the effect on [isAuthenticated, sessionKey] taken
\* up to the first await of initializeSecureServices.
handleAuthStartingInit(username, password, random) ==
    LET login == hasUser /\ getUser(username) # {}
        salt == IF login THEN (CHOOSE r \in getUser(username) : TRUE).salt
                ELSE generateSalt(random)
        key == deriveKey(password, salt)
        verifier == createVerifier(key)
        opens == /\ username # "" /\ password # ""
                 /\ IF hasUser
                    THEN login /\ verifier = (CHOOSE r \in getUser(username) : TRUE).verifier
                    ELSE getUser(username) = {}
    IN  /\ isDbReady
        /\ ~isAuthenticated
        /\ Len(secureInit) < MaxInits
        /\ lastOp' = "auth"
        /\ lastAuth' = [username |-> username, password |-> password,
                        flow |-> IF username = "" \/ password = "" THEN "none"
                                 ELSE IF hasUser THEN "login" ELSE "register",
                        hadUsers |-> hasUsers]
        /\ dbAuth' = (IF opens /\ ~hasUser
                      THEN dbAuth \cup {[username |-> username, salt |-> salt,
                                         verifier |-> verifier]}
                      ELSE dbAuth)
        /\ sessionKey' = (IF opens THEN key ELSE sessionKey)
        /\ isAuthenticated' = opens
        /\ authError' = (IF opens THEN ""
                         ELSE IF username = "" \/ password = ""
                              THEN "Please fill in all fields"
                         ELSE IF ~hasUser THEN "Authentication failed"
                         ELSE IF ~login THEN "User not found"
                         ELSE "Invalid credentials")
        /\ secureInit' = (IF opens THEN Append(secureInit, StartedInit(key))
                          ELSE secureInit)
        /\ UNCHANGED <<isDbReady, hasUser, memoryVars, statusCallback, dbSettings,
                       callVars, snap, regThenLogout, cacheVars, viewerVars,
                       cryptoVars, panelVars, dashVars,
                       libraryVars>>

\* Call i after await dbService.getSettings(): without a record it returns;
\* without a worker key blob setNomadUrl runs at once.
InitReadsSettings(i) ==
    /\ i \in 1..Len(secureInit)
    /\ secureInit[i].at = 0
    /\ LET settings == OrEmpty(dbSettings)
           next == IF dbSettings = Undefined THEN Len(InitSlots) + 1
                   ELSE NextAwait(settings, 1)
       IN  /\ secureInit' = Advance(i, settings, next)
           /\ MEMORY_NOMAD_URL' = (IF dbSettings # Undefined /\ next > 1
                                   THEN UrlAfterWorkerKey(settings)
                                   ELSE MEMORY_NOMAD_URL)
    /\ lastOp' = "initReads"
    /\ UNCHANGED <<sessionVars, MEMORY_NOMAD_KEY, MEMORY_API_KEY, GEMINI_API_KEY,
                   statusCallback, dbSettings, callVars, snap, lastAuth,
                   regThenLogout, cacheVars, viewerVars, cryptoVars, panelVars,
                   dashVars, libraryVars>>

\* Call i after an await of decryptData: the plaintext goes to the service of
\* the slot, or the catch logs a warning.  Nothing tests whether the session
\* the call was started for is still open.
InitDecryptSettles(i) ==
    /\ i \in 1..Len(secureInit)
    /\ secureInit[i].at > 0
    /\ LET init == secureInit[i]
           slot == InitSlots[init.at]
           blob == init.settings[slot]
           ok == Decrypts(blob, init.key)
           text == decryptData(blob, init.key)
       IN  /\ MEMORY_NOMAD_KEY' = (IF ok /\ slot = "nomadProxyKey"
                                   THEN NomadKeyValue(text) ELSE MEMORY_NOMAD_KEY)
           /\ MEMORY_NOMAD_URL' = (IF slot = "nomadProxyKey"
                                   THEN UrlAfterWorkerKey(init.settings)
                                   ELSE MEMORY_NOMAD_URL)
           /\ MEMORY_API_KEY' = (IF ok /\ slot = "apiKey" THEN text
                                 ELSE MEMORY_API_KEY)
           /\ GEMINI_API_KEY' = (IF ok /\ slot = "geminiApiKey" THEN text
                                 ELSE GEMINI_API_KEY)
           /\ secureInit' = Advance(i, init.settings,
                                    NextAwait(init.settings, init.at + 1))
    /\ lastOp' = "initDecrypts"
    /\ UNCHANGED <<sessionVars, statusCallback, dbSettings, callVars, snap,
                   lastAuth, regThenLogout, cacheVars, viewerVars, cryptoVars,
                   panelVars, dashVars, libraryVars>>

\* ------------------------------------------------------------ specifications

\* The settings records the network form can have saved (URL fields only).
ProxyConfigs ==
    {Undefined} \cup
    {{[EmptySettings EXCEPT !.nomadUrl = n, !.customProxyUrl = c, !.proxy1Url = p1,
                            !.proxy2Url = p2]} :
        n \in {<<>>, WorkerUrl},
        c \in {<<>>, BlankUrl, HomelabUrl, HomelabCorsproxyUrl},
        p1 \in {<<>>, MirrorUrl},
        p2 \in {<<>>, <<" ">> \o DEFAULT_PROXY_2}}

WorkerKeys == {<<>>, <<" ", "nk1">>}
YouTubeKeys == {<<>>, <<"yt1">>}
VimeoTokens == {<<>>, <<"vm1">>}

\* The worker key and custom proxy fields of the network form.
NetworkForms == {<< <<>>, <<>> >>, << <<" ", "nk1">>, HomelabUrl >>}

\* No fetchText call has been made.
InitCall ==
    /\ fpc = "idle"
    /\ fSettings = Undefined
    /\ proxies = <<>>
    /\ fIdx = 1
    /\ lastError = NoError
    /\ usedPublic = FALSE
    /\ attempts = <<>>
    /\ statusCalls = <<>>
    /\ fResult = Pending

\* The module variables of the services as the page load leaves them.
InitMemory ==
    /\ MEMORY_NOMAD_KEY = Null
    /\ MEMORY_NOMAD_URL = Null
    /\ MEMORY_API_KEY = Null
    /\ GEMINI_API_KEY = Null

\* App as useState leaves it, over an empty 'auth' store.
InitSession ==
    /\ isDbReady = FALSE
    /\ hasUser = FALSE
    /\ isAuthenticated = FALSE
    /\ sessionKey = NoKey
    /\ authError = ""
    /\ dbAuth = {}
    /\ lastOp = "load"
    /\ lastAuth = NoAuth
    /\ regThenLogout = {}

AliceSalt == generateSalt("salt1")
AliceKey == deriveKey("pw1", AliceSalt)

\* App after the mount effect and the registration of alice with pw1.
InitLoggedIn ==
    /\ isDbReady = TRUE
    /\ hasUser = FALSE
    /\ isAuthenticated = TRUE
    /\ sessionKey = AliceKey
    /\ authError = ""
    /\ dbAuth = {[username |-> "alice", salt |-> AliceSalt,
                  verifier |-> createVerifier(AliceKey)]}
    /\ lastOp = "auth"
    /\ lastAuth = [username |-> "alice", password |-> "pw1", flow |-> "register",
                   hadUsers |-> FALSE]
    /\ regThenLogout = {}

\* No save handler is between its read and its write.
InitSnap == snap = [flow \in Flows |-> Idle]

\* No initializeSecureServices call and no dashboard refresh is in flight.
InitRest ==
    /\ secureInit = <<>>
    /\ refresh = NoRefresh
    /\ InitLibrary

\* The seeded channel, never fetched.
InitCache ==
    /\ dbItem = NoItem
    /\ viewItem = NoItem
    /\ now = 1
    /\ gv = NoCall
    /\ netFetch = NoFetch
    /\ viewer = NoViewer
    /\ loads = <<>>
    /\ cx = NoExercise
    /\ tc = NoTest
    /\ exported = NoExport
    /\ InitRest

InitProxy ==
    /\ InitMemory
    /\ statusCallback = FALSE
    /\ dbSettings \in ProxyConfigs
    /\ InitCall
    /\ InitSession
    /\ InitSnap
    /\ InitCache

NextProxy ==
    \/ \E key \in WorkerKeys : setNomadKey(key)
    \/ onProxyStatusChange
    \/ FetchTextStart
    \/ FetchTextSettingsRejected
    \/ \E outcome \in Outcomes : NomadAttempt(outcome)
    \/ \E outcome \in Outcomes : ProxyAttempt(outcome)
    \/ FetchTextExhausted

SpecProxy == InitProxy /\ [][NextProxy]_vars

\* fetchText where every request made eventually completes or errors, and the
\* code after the loop runs once the loop is left.
SpecProxyFair ==
    /\ SpecProxy
    /\ WF_vars(\E outcome \in Outcomes : NomadAttempt(outcome))
    /\ WF_vars(\E outcome \in Outcomes : ProxyAttempt(outcome))
    /\ WF_vars(FetchTextExhausted)

\* The session: page load, submissions, logout, and the two forms that put
\* secrets into memory.
Init ==
    /\ InitMemory
    /\ statusCallback = FALSE
    /\ dbSettings = Undefined
    /\ InitCall
    /\ InitSession
    /\ InitSnap
    /\ InitCache

Next ==
    \/ AppInitEffect
    \/ \E username \in Usernames \cup {""}, password \in Passwords \cup {""},
          random \in Salts : handleAuth(username, password, random)
    \/ logout
    \/ Reload
    \/ \E apiKey \in YouTubeKeys :
          handleSaveCredentials(apiKey, <<>>, <<>>, <<"iv1", "iv1", "iv1">>)
    \/ \E nomadKey \in WorkerKeys :
          handleSaveNetwork(nomadKey, DEFAULT_NOMAD_URL, <<>>, DEFAULT_PROXY_1,
                            DEFAULT_PROXY_2, "iv1")
    \/ \E data \in Backups : importFullDB(data)

Spec == Init /\ [][Next]_vars

\* The settings panel of one session, its handlers interleaved at their awaits.
InitSettings ==
    /\ InitMemory
    /\ statusCallback = TRUE
    /\ dbSettings = Undefined
    /\ InitCall
    /\ InitLoggedIn
    /\ InitSnap
    /\ InitCache

NextSettings ==
    \/ \E flow \in Flows : BeginSave(flow)
    \/ \E apiKey \in YouTubeKeys, vimeoToken \in VimeoTokens, iv \in IVs :
          CommitCredentials(apiKey, vimeoToken, <<>>, <<iv, "iv1", "iv1">>)
    \/ \E form \in NetworkForms :
          CommitNetwork(form[1], DEFAULT_NOMAD_URL, form[2], DEFAULT_PROXY_1,
                        DEFAULT_PROXY_2, "iv1")
    \/ \E duration \in CacheOptions : handleCacheChange(duration)

SpecSettings == InitSettings /\ [][NextSettings]_vars

\* The feed of one channel within one session.
InitFeed ==
    /\ InitMemory
    /\ statusCallback = TRUE
    /\ dbSettings = Undefined
    /\ InitCall
    /\ InitLoggedIn
    /\ InitSnap
    /\ dbItem \in {NewItem(type) : type \in ItemTypes}
    /\ viewItem = dbItem
    /\ now = 1
    /\ gv = NoCall
    /\ netFetch = NoFetch
    /\ viewer = NoViewer
    /\ loads = <<>>
    /\ cx = NoExercise
    /\ tc = NoTest
    /\ exported = NoExport
    /\ InitRest

NextFeed ==
    \/ loadData
    \/ \E hours \in TickHours : Tick(hours)
    \/ \E forceRefresh \in BOOLEAN, uploads \in {"ok", "fail"},
          api \in FetchOutcomes, rss \in FetchOutcomes :
          getVideos(forceRefresh, uploads, api, rss)
    \/ \E duration \in CacheOptions : handleCacheChange(duration)
    \/ \E apiKey \in YouTubeKeys :
          handleSaveCredentials(apiKey, <<>>, <<>>, <<"iv1", "iv1", "iv1">>)

SpecFeed == InitFeed /\ [][NextFeed]_vars

\* FeedViewer over a session: sources are chosen, refreshed and left while
\* earlier loads are still in flight.
InitViewer ==
    /\ InitMemory
    /\ statusCallback = TRUE
    /\ dbSettings = Undefined
    /\ InitCall
    /\ InitLoggedIn
    /\ InitSnap
    /\ InitCache

NextViewer ==
    \/ \E source \in Sources : ViewSource(source)
    \/ Refresh
    \/ \E i \in 1..MaxLoads, videoItems \in UNION {FeedOf[x] : x \in Sources} :
          LoadResolves(i, videoItems)
    \/ \E i \in 1..MaxLoads : LoadRejects(i)
    \/ CloseViewer

SpecViewer == InitViewer /\ [][NextViewer]_vars

\* cryptoService on its own: a text, a key and an iv are drawn, the text is
\* encrypted, the blob stored, read back or altered, and decrypted.
InitCrypto ==
    /\ InitMemory
    /\ statusCallback = FALSE
    /\ dbSettings = Undefined
    /\ InitCall
    /\ InitSession
    /\ InitSnap
    /\ dbItem = NoItem
    /\ viewItem = NoItem
    /\ now = 1
    /\ gv = NoCall
    /\ netFetch = NoFetch
    /\ viewer = NoViewer
    /\ loads = <<>>
    /\ tc = NoTest
    /\ exported = NoExport
    /\ InitRest
    /\ cx \in {[NoExercise EXCEPT !.stage = "input", !.text = text, !.key = key, !.iv = iv] :
                   text \in Plaintexts, key \in CryptoKeys, iv \in IVs}

NextCrypto ==
    \/ Encrypt
    \/ StoreBlob
    \/ LoadBlob
    \/ \E how \in {"iv", "ciphertext"} : Alter(how)
    \/ \E key \in CryptoKeys : Decrypt(key)

SpecCrypto == InitCrypto /\ [][NextCrypto]_vars

\* The Test button of the network form, pressed with any form contents and
\* answered in any way.
InitTest ==
    /\ InitMemory
    /\ statusCallback = TRUE
    /\ dbSettings = Undefined
    /\ InitCall
    /\ InitLoggedIn
    /\ InitSnap
    /\ InitCache

NextTest ==
    \E nomadKey \in WorkerKeys \cup {<<"nk2">>}, nomadUrl \in TestUrls, net \in TestOutcomes :
        handleTestNomad(nomadKey, nomadUrl, net)

SpecTest == InitTest /\ [][NextTest]_vars

\* The backup panel next to the forms that save secrets.
InitBackup ==
    /\ InitMemory
    /\ statusCallback = TRUE
    /\ dbSettings = Undefined
    /\ InitCall
    /\ InitLoggedIn
    /\ InitSnap
    /\ InitCache

NextBackup ==
    \/ \E apiKey \in YouTubeKeys :
          handleSaveCredentials(apiKey, <<>>, <<>>, <<"iv1", "iv1", "iv1">>)
    \/ \E nomadKey \in WorkerKeys :
          handleSaveNetwork(nomadKey, DEFAULT_NOMAD_URL, <<>>, DEFAULT_PROXY_1,
                            DEFAULT_PROXY_2, "iv1")
    \/ \E duration \in CacheOptions : handleCacheChange(duration)
    \/ handleExport
    \/ \E data \in Backups : importFullDB(data)

SpecBackup == InitBackup /\ [][NextBackup]_vars

\* The settings records alice's earlier session can have left: the credentials
\* form and the network form saved under her key.
StoredSettings ==
    {Undefined} \cup
    {{NetworkRecord({CredentialsRecord(Undefined, apiKey, vimeoToken, <<>>, AliceKey,
                                       <<"iv1", "iv1", "iv1">>)},
                    nomadKey, DEFAULT_NOMAD_URL, <<>>, DEFAULT_PROXY_1,
                    DEFAULT_PROXY_2, AliceKey, "iv1")} :
        apiKey \in YouTubeKeys, vimeoToken \in VimeoTokens, nomadKey \in WorkerKeys}

\* A page load over the database of an earlier session of alice: the mount
\* effect has run, nobody is logged in, the service modules hold nothing.
InitSecure ==
    /\ InitMemory
    /\ statusCallback = TRUE
    /\ dbSettings \in StoredSettings
    /\ InitCall
    /\ isDbReady = TRUE
    /\ hasUser = TRUE
    /\ isAuthenticated = FALSE
    /\ sessionKey = NoKey
    /\ authError = ""
    /\ dbAuth = {[username |-> "alice", salt |-> AliceSalt,
                  verifier |-> createVerifier(AliceKey)]}
    /\ lastOp = "init"
    /\ lastAuth = NoAuth
    /\ regThenLogout = {}
    /\ InitSnap
    /\ InitCache

\* Logins and logouts next to the secret initialisations they started.
NextSecure ==
    \/ \E username \in Usernames \cup {""}, password \in Passwords, random \in Salts :
          handleAuthStartingInit(username, password, random)
    \/ logout
    \/ \E i \in 1..MaxInits : InitReadsSettings(i)
    \/ \E i \in 1..MaxInits : InitDecryptSettles(i)

SpecSecure == InitSecure /\ [][NextSecure]_vars

\* The dashboard refreshing while the settings panel saves: in one session, the
\* handlers and loadContent interleaved at their awaits.
InitDashboard ==
    /\ InitMemory
    /\ statusCallback = TRUE
    /\ dbSettings = Undefined
    /\ InitCall
    /\ InitLoggedIn
    /\ InitSnap
    /\ InitCache

NextDashboard ==
    \/ BeginSave("credentials")
    \/ \E apiKey \in YouTubeKeys :
          CommitCredentials(apiKey, <<>>, <<>>, <<"iv1", "iv1", "iv1">>)
    \/ \E nomadKey \in WorkerKeys :
          handleSaveNetwork(nomadKey, DEFAULT_NOMAD_URL, <<>>, DEFAULT_PROXY_1,
                            DEFAULT_PROXY_2, "iv1")
    \/ \E duration \in CacheOptions : handleCacheChange(duration)
    \/ \E forceRefresh \in BOOLEAN : loadContentBegins(forceRefresh)
    \/ \E newVideos \in DiscoveryVideos : loadContentSaves(newVideos)

SpecDashboard == InitDashboard /\ [][NextDashboard]_vars

\* The backups the library specification imports: one from an installation
\* whose tag 1 has another name, one whose tag 3 is named as the stored tag
\* 1 is, refused by the unique index.
LibraryBackups ==
    [auth : {{}}, settings : {{}}, channels : {{}},
     tags : {{[id |-> 1, name |-> "Travel"]}, {[id |-> 3, name |-> "Documentary"]}}]

InitLibraryApp ==
    /\ InitMemory
    /\ statusCallback = TRUE
    /\ dbSettings = Undefined
    /\ InitCall
    /\ InitLoggedIn
    /\ InitSnap
    /\ InitCache

NextLibrary ==
    \/ \E type \in DOMAIN StoreOfType, selectedTags \in SelectableTags :
          handleSaveItem(type, selectedTags)
    \/ \E tag \in tags : handleDeleteTag(tag)
    \/ \E video \in Videos : handleAddToWatchLater(video)
    \/ loadDataResolves
    \/ \E data \in LibraryBackups : importFullDB(data)

SpecLibrary == InitLibraryApp /\ [][NextLibrary]_vars

\* ------------------------------------------------------------ claims: proxy

LastAttempt == attempts[Len(attempts)]

\* C1: within one fetchText call the tiers are contacted in strictly increasing
\* priority order, a tier is contacted only when every tier contacted before it
\* failed, and a tier that returns valid content is the last one contacted: the
\* call is then resolved with the body that tier returned.
C1_TiersInOrderFirstSuccessWins ==
    /\ \A i \in 1..Len(attempts) :
          /\ (i < Len(attempts) => ~attempts[i].ok)
          /\ (i > 1 => attempts[i - 1].tier < attempts[i].tier)
    /\ (attempts # <<>> /\ LastAttempt.ok) =>
          /\ fpc = "resolved"
          /\ fResult.kind = "resolved"
          /\ fResult.body = BodyOf(LastAttempt.outcome, LastAttempt.url)
    /\ fpc = "resolved" => (attempts # <<>> /\ LastAttempt.ok)

\* C1 witness: the worker and the custom tier failed, public proxy 1 supplied the
\* content, public proxy 2 was not contacted.
C1_Witness ==
    /\ fpc = "resolved"
    /\ Len(attempts) = 3
    /\ attempts[1].tier = 1 /\ attempts[2].tier = 2 /\ attempts[3].tier = 3
    /\ fResult.body = <<"<feed>">> \o attempts[3].url

\* The error thrown by the last custom/public attempt that threw, NoError if none.
RECURSIVE LastThrown(_)
LastThrown(as) ==
    IF as = <<>> THEN NoError
    ELSE LET a == as[Len(as)]
         IN  IF a.tier # 1 /\ Threw(a.outcome) THEN ErrorOf(a.outcome, a.url)
             ELSE LastThrown(SubSeq(as, 1, Len(as) - 1))

\* C2 as stated: a rejected call carries the error of the last tier that failed,
\* the generic error when that tier left none.
C2_Original_ErrorOfLastFailedTier ==
    (fpc = "rejected" /\ attempts # <<>>) =>
        fResult.error = (IF Threw(LastAttempt.outcome)
                         THEN ErrorOf(LastAttempt.outcome, LastAttempt.url)
                         ELSE GenericError)

\* C2 amended: a call rejects only when every attempted tier failed, and it then
\* carries the error thrown (non-success status or network error) by the last
\* custom/public tier that threw one; a tier that failed by an invalid body, and
\* the worker tier, leave no error; the generic error if no such tier threw.
C2_RejectsWithLastThrownError ==
    (fpc = "rejected" /\ attempts # <<>>) =>
        /\ \A i \in 1..Len(attempts) : ~attempts[i].ok
        /\ fResult.kind = "rejected"
        /\ fResult.error = (IF LastThrown(attempts) # NoError
                            THEN LastThrown(attempts) ELSE GenericError)

\* C2 witness: public proxy 1 threw, public proxy 2 answered with an invalid body,
\* and the call rejected with public proxy 1's error.
C2_Witness ==
    /\ fpc = "rejected"
    /\ Len(attempts) = 2
    /\ Threw(attempts[1].outcome)
    /\ ~Threw(attempts[2].outcome)
    /\ fResult.error = ErrorOf(attempts[1].outcome, attempts[1].url)

CategoryOfTier(tier) ==
    CASE tier = 1 -> "secure" [] tier = 2 -> "custom" [] OTHER -> "public"

\* C3: when fetchText succeeds, the status passed to the registered callback is
\* the category of the tier that supplied the content.
C3_StatusNamesSupplyingTier ==
    (fpc = "resolved" /\ statusCalls # <<>>) =>
        statusCalls[Len(statusCalls)] = CategoryOfTier(LastAttempt.tier)

\* ---------------------------------------------------------- claims: session

\* C4: a submission of a username and password that were registered and then
\* logged out authenticates: the session is Authenticated and holds a key whose
\* verifier is the stored one.
C4_RegisterLogoutThenLogin ==
    (lastOp = "auth" /\ <<lastAuth.username, lastAuth.password>> \in regThenLogout) =>
        /\ isAuthenticated
        /\ \E user \in getUser(lastAuth.username) :
              createVerifier(sessionKey) = user.verifier

\* The password a user record was registered with.
RegisteredPassword(user) == base64ToArrayBuffer(user.verifier).sha256.pw

\* C5: when the login flow runs for a username that has a record, with a
\* password other than the registered one, the session stays Unauthenticated,
\* no session key is set, and the error is 'Invalid credentials'.
C5_WrongPasswordRejected ==
    (/\ lastOp = "auth"
     /\ lastAuth.flow = "login"
     /\ \E user \in getUser(lastAuth.username) :
           RegisteredPassword(user) # lastAuth.password) =>
        /\ ~isAuthenticated
        /\ sessionKey = NoKey
        /\ authError = "Invalid credentials"

\* C5 witness: after a reload, alice registered with pw1 has logged in with pw2
\* and been refused.
C5_Witness ==
    /\ lastOp = "auth"
    /\ lastAuth.flow = "login"
    /\ lastAuth.password = "pw2"
    /\ \E user \in getUser(lastAuth.username) : RegisteredPassword(user) = "pw1"
    /\ authError = "Invalid credentials"

EmptySlot(slot) == slot = Null \/ slot = <<>>

\* C6: right after logout the session is Unauthenticated, holds no session
\* key, and every in-memory secret slot is empty.
C6_LogoutEmptiesSecrets ==
    lastOp = "logout" =>
        /\ ~isAuthenticated
        /\ sessionKey = NoKey
        /\ EmptySlot(MEMORY_API_KEY)
        /\ EmptySlot(MEMORY_NOMAD_KEY)
        /\ EmptySlot(GEMINI_API_KEY)

\* C7: a submission runs the registration flow only if the 'auth' store held no
\* record when it was made; if it held one, the submission runs the login flow.
C7_RegisterOnlyWithoutUsers ==
    /\ lastAuth.flow = "register" => ~lastAuth.hadUsers
    /\ (lastAuth.hadUsers /\ lastAuth.flow # "none") => lastAuth.flow = "login"

\* ------------------------------------------------------- claims: feed cache

\* C8: a non-forced getVideos call made within the TTL of an earlier network
\* fetch of the channel returns the list that fetch returned and invokes no
\* platform fetcher.
C8_CachedWithinTTL ==
    (/\ lastOp = "getVideos"
     /\ ~gv.forced
     /\ gv.prior # NoFetch
     /\ now - gv.prior.at < CacheDuration(dbSettings)) =>
        /\ ~gv.fetched
        /\ gv.result = [ok |-> TRUE, videos |-> gv.prior.videos]

\* C9: a getVideos call whose live fetch threw or yielded no items leaves the
\* persisted cached list and fetch timestamp of the channel as they were.
C9_FailedFetchKeepsCache ==
    (/\ lastOp = "getVideos"
     /\ gv.fetched
     /\ (~gv.result.ok \/ gv.result.videos = <<>>)) =>
        /\ dbItem.cachedContent = gv.before.cachedContent
        /\ dbItem.lastFetched = gv.before.lastFetched

\* --------------------------------------------------------- claims: settings

SecretSlots == {"apiKey", "vimeoToken", "dailymotionToken", "nomadProxyKey",
                "geminiApiKey"}
CredentialFields == {"apiKey", "vimeoToken", "dailymotionToken"}
NetworkFields == {"nomadProxyKey", "nomadUrl", "customProxyUrl", "proxy1Url",
                  "proxy2Url"}

\* The settings a save handler read at its start.
SnapshotOf(flow) == IF snap[flow].busy THEN snap[flow].settings ELSE dbSettings

SlotAfterInit(blob, slot, plaintext) ==
    \/ blob = NoBlob
    \/ Decrypts(blob, sessionKey) /\ slot = plaintext
    \/ ~Decrypts(blob, sessionKey) /\ EmptySlot(slot)

\* C11: right after a successful submission the session is Authenticated, and
\* each consumer (proxy worker key, YouTube key, AI assistant key) whose stored
\* blob decrypts holds the plaintext whatever happened to the other slots, while
\* a consumer whose stored blob does not decrypt holds nothing.
C11_DecryptFailureIsolated ==
    (lastOp = "auth" /\ lastAuth.flow # "none" /\ authError = ""
        /\ dbSettings # Undefined) =>
        /\ isAuthenticated
        /\ SlotAfterInit(OrEmpty(dbSettings).nomadProxyKey, MEMORY_NOMAD_KEY,
              NomadKeyValue(decryptData(OrEmpty(dbSettings).nomadProxyKey, sessionKey)))
        /\ SlotAfterInit(OrEmpty(dbSettings).apiKey, MEMORY_API_KEY,
              decryptData(OrEmpty(dbSettings).apiKey, sessionKey))
        /\ SlotAfterInit(OrEmpty(dbSettings).geminiApiKey, GEMINI_API_KEY,
              decryptData(OrEmpty(dbSettings).geminiApiKey, sessionKey))

\* ------------------------------------------------------ claims: what is stored

\* A stored blob is AES-GCM output: without the key nothing of the plaintext
\* or of the key can be read from it.
IsCiphertext(blob) ==
    /\ DOMAIN blob = {"iv", "ciphertext"}
    /\ DOMAIN base64ToArrayBuffer(blob.ciphertext) = {"gcm", "key", "iv"}
    /\ base64ToArrayBuffer(blob.ciphertext).key # NoKey

\* C12: every record of the 'auth' store has exactly the fields username, salt
\* and verifier, the salt being random bytes and the verifier a SHA-256 digest
\* (neither the password nor the exported key), and the settings record holds
\* secrets only as ciphertext: no stored value is the password or the session key.
C12_NoPasswordNoKeyStored ==
    /\ \A user \in dbAuth :
          /\ DOMAIN user = {"username", "salt", "verifier"}
          /\ user.username \in Usernames
          /\ base64ToArrayBuffer(user.salt) \in Salts
          /\ DOMAIN base64ToArrayBuffer(user.verifier) = {"sha256"}
    /\ \A f \in SecretSlots :
          OrEmpty(dbSettings)[f] = NoBlob \/ IsCiphertext(OrEmpty(dbSettings)[f])

\* C12 witness: a registration has stored a user record and a save has stored
\* a secret while the session key is held.
C12_Witness ==
    /\ lastOp = "saveNetwork"
    /\ sessionKey # NoKey
    /\ \E user \in dbAuth : user.verifier = createVerifier(sessionKey)
    /\ OrEmpty(dbSettings).nomadProxyKey # NoBlob

\* C13: a save writes each credential of its group as an {iv, ciphertext} blob
\* that decrypts under the session key held at the time of the save, or removes
\* it; and every credential the settings record holds at any time is ciphertext
\* under some key, never plaintext.
C13_CredentialsStoredEncrypted ==
    [][/\ \A f \in SecretSlots :
             \/ OrEmpty(dbSettings')[f] = NoBlob
             \/ IsCiphertext(OrEmpty(dbSettings')[f])
       /\ lastOp' = "saveCredentials" =>
             \A f \in CredentialFields :
                 \/ OrEmpty(dbSettings')[f] = NoBlob
                 \/ /\ sessionKey # NoKey
                    /\ Decrypts(OrEmpty(dbSettings')[f], sessionKey)
       /\ lastOp' = "saveNetwork" =>
             \/ OrEmpty(dbSettings').nomadProxyKey = NoBlob
             \/ /\ sessionKey # NoKey
                /\ Decrypts(OrEmpty(dbSettings').nomadProxyKey, sessionKey)]_vars

\* C13 witness: bob's session has saved the YouTube key under bob's key next to
\* a worker key blob that alice's session had stored under hers.
C13_Witness ==
    /\ lastOp = "saveCredentials"
    /\ Decrypts(OrEmpty(dbSettings).apiKey, sessionKey)
    /\ OrEmpty(dbSettings).nomadProxyKey # NoBlob
    /\ ~Decrypts(OrEmpty(dbSettings).nomadProxyKey, sessionKey)

\* C14: no step of the program modifies or replaces a stored user record:
\* every record of the 'auth' store is still in it, as it was, after the step.
C14_UserRecordImmutable ==
    [][\A user \in dbAuth : user \in dbAuth']_vars

\* -------------------------------------------------- claims: proxy, continued

\* C15: a fetchText call is rejected only when every tier the stored settings
\* configure, and both default tiers, have been attempted by it and have failed.
C15_RejectsOnlyAfterEveryTier ==
    fpc = "rejected" =>
        \A i \in 1..Len(CandidateList(dbSettings)) :
            \E j \in 1..Len(attempts) :
                /\ attempts[j].tier = CandidateList(dbSettings)[i].tier
                /\ ~attempts[j].ok

\* C16: a fetchText call sends its request to the worker only if a non-empty
\* worker key is held in memory at that moment, and an answer of the worker is
\* only ever the answer to such a request.
C16_WorkerOnlyWithKey ==
    [][/\ (fpc # "nomad" /\ fpc' = "nomad") =>
             (MEMORY_NOMAD_KEY # Null /\ MEMORY_NOMAD_KEY # <<>>)
       /\ (Len(attempts') > Len(attempts) /\ attempts'[Len(attempts')].tier = 1) =>
             (fpc = "nomad" /\ Len(attempts') = 1)]_vars

\* C16 witness: with the key 'nk1' held, a call has contacted the worker and
\* been answered by it.
C16_Witness ==
    /\ MEMORY_NOMAD_KEY = <<"nk1">>
    /\ fpc = "resolved"
    /\ Len(attempts) = 1
    /\ attempts[1].tier = 1

\* ------------------------------------------------------------------ C17
\* The answers that make a tier fail: a non-success status, an empty body, and
\* a body holding one of the three markers.
FailingOutcomes == {"status", "empty", "denied", "proxyerr", "forbidden"}

\* The tier tried after tier t: the first candidate that stands for a later one.
TierAfter(t) ==
    LET later == {c \in 1..Len(CandidateList(fSettings)) : CandidateList(fSettings)[c].tier > t}
    IN  CandidateList(fSettings)[CHOOSE c \in later : \A d \in later : c <= d].tier

\* C17: a tier answering with a non-success status, an empty body, or a body
\* containing 'Access Denied', 'Proxy Error' or '403 Forbidden' has failed: the
\* call never resolves with that answer, and the request after it goes to the
\* next tier; only after the last tier does the call reject.
C17_InvalidResponseFailsTier ==
    \A i \in 1..Len(attempts) :
        attempts[i].outcome \in FailingOutcomes =>
            /\ ~attempts[i].ok
            /\ fpc = "resolved" =>
                   /\ i < Len(attempts)
                   /\ fResult.body # BodyOf(attempts[i].outcome, attempts[i].url)
            /\ fpc = "rejected" /\ i = Len(attempts) => attempts[i].tier = 4
            /\ i < Len(attempts) => attempts[i + 1].tier = TierAfter(attempts[i].tier)

\* C17 witness: the worker answered 500, the custom proxy 'Proxy Error', the
\* first public proxy '403 Forbidden', and the second public proxy's valid body
\* is what the call resolved with.
C17_Witness ==
    /\ fpc = "resolved"
    /\ Len(attempts) = 4
    /\ attempts[1].outcome = "status"
    /\ attempts[2].outcome = "proxyerr"
    /\ attempts[3].outcome = "forbidden"
    /\ fResult.body = BodyOf("valid", attempts[4].url)

\* ------------------------------------------------------------------ C18
\* C18: a login submitted for a username the store has no record of reports
\* 'User not found'; after it the session is not authenticated, holds no
\* session key, and the 'auth' and 'settings' stores are as they were.
C18_LoginUnknownUserFails ==
    [][(lastOp' = "auth" /\ lastAuth'.flow = "login" /\ getUser(lastAuth'.username) = {}) =>
          /\ authError' = "User not found"
          /\ ~isAuthenticated'
          /\ sessionKey' = NoKey
          /\ dbAuth' = dbAuth
          /\ dbSettings' = dbSettings]_vars

\* C18 witness: with alice the only stored user, a login as bob has just been
\* refused.
C18_Witness ==
    /\ lastOp = "auth"
    /\ lastAuth.flow = "login"
    /\ lastAuth.username = "bob"
    /\ getUser("alice") # {}
    /\ getUser("bob") = {}
    /\ authError = "User not found"

\* ------------------------------------------------------------------ C19
\* C19: a registration submitted for a username that has a stored record
\* fails: the error is reported, the stored record and the rest of the 'auth'
\* store are as they were, the session is not authenticated and holds no key.
C19_DuplicateRegistrationFails ==
    [][(lastOp' = "auth" /\ lastAuth'.flow = "register" /\ getUser(lastAuth'.username) # {}) =>
          /\ authError' = "Authentication failed"
          /\ dbAuth' = dbAuth
          /\ ~isAuthenticated'
          /\ sessionKey' = NoKey]_vars

\* C19 witness: alice registered with 'pw1' and logged out; a registration as
\* alice with 'pw2' has just been refused and her record still verifies 'pw1'.
C19_Witness ==
    /\ lastOp = "auth"
    /\ lastAuth = [username |-> "alice", password |-> "pw2", flow |-> "register",
                   hadUsers |-> TRUE]
    /\ authError = "Authentication failed"
    /\ ~isAuthenticated
    /\ \E user \in getUser("alice") :
           user.verifier = createVerifier(deriveKey("pw1", user.salt))

\* ------------------------------------------------------------------ C20
\* The state of the session.
SessionState ==
    IF ~isDbReady THEN "Uninitialized"
    ELSE IF isAuthenticated THEN "Authenticated" ELSE "Unauthenticated"

\* The user record the submission just made is about, after the step.
SubmittedUser == {r \in dbAuth' : r.username = lastAuth'.username}

\* C20: within one page load the session changes state only from Uninitialized
\* to Unauthenticated by the mount effect, from Unauthenticated to Authenticated
\* by a submission, and from Authenticated to Unauthenticated by logout.  It is
\* Authenticated only with the database initialised, and it becomes so only
\* when the session key is the one derived from the submitted password and the
\* stored salt and its verifier is the stored one (the record found at login
\* or the one the registration just stored).
C20_SessionStateMachine ==
    [][lastOp' # "reload" =>
          /\ isAuthenticated' => isDbReady
          /\ SessionState' # SessionState =>
                \/ /\ SessionState = "Uninitialized"
                   /\ SessionState' = "Unauthenticated"
                   /\ lastOp' = "init"
                \/ /\ SessionState = "Unauthenticated"
                   /\ SessionState' = "Authenticated"
                   /\ lastOp' = "auth"
                   /\ \E user \in SubmittedUser :
                         /\ sessionKey' = deriveKey(lastAuth'.password, user.salt)
                         /\ createVerifier(sessionKey') = user.verifier
                         /\ lastAuth'.flow = "register" => user \notin dbAuth
                         /\ lastAuth'.flow = "login" => user \in dbAuth
                \/ /\ SessionState = "Authenticated"
                   /\ SessionState' = "Unauthenticated"
                   /\ lastOp' = "logout"]_vars

\* C20 witness: a session opened by a login whose verifier matched has been
\* closed by logout, in the same page load.
C20_Witness ==
    /\ lastOp = "logout"
    /\ lastAuth.flow = "login"
    /\ SessionState = "Unauthenticated"
    /\ \E user \in getUser(lastAuth.username) :
           createVerifier(deriveKey(lastAuth.password, user.salt)) = user.verifier

\* ------------------------------------------------------------ claims: feed viewer

\* C21: the list FeedViewer shows holds videos of the source it currently
\* shows only: the result of a load issued for a source selected earlier never
\* becomes the list.
C21_SupersededLoadIgnored ==
    \A k \in 1..Len(viewer.items) :
        \E videoItems \in FeedOf[viewer.item] :
            \E j \in 1..Len(videoItems) : videoItems[j] = viewer.items[k]

\* ------------------------------------------------- claims: feed cache, continued

\* C22: a getVideos call with forceRefresh = true goes to the platform fetcher,
\* whatever list and fetch time the item carries and whatever cache duration
\* the settings hold.
C22_ForceRefreshAlwaysFetches ==
    (lastOp = "getVideos" /\ gv.forced) => gv.fetched

\* C22 witness: a forced call went to the fetcher although the item it was
\* given carried a list fetched within the configured 24 hours.
C22_Witness ==
    /\ lastOp = "getVideos"
    /\ gv.forced
    /\ gv.fetched
    /\ CacheDuration(dbSettings) = 24
    /\ viewItem.cachedContent # <<>>
    /\ viewItem.lastFetched # 0
    /\ now - viewItem.lastFetched < CacheDuration(dbSettings)

Untouched == cx.blob = encryptData(cx.text, cx.key, cx.iv)

\* C25: decryptData, given the blob encryptData returned for a text and the
\* key it was encrypted under, returns that text, also when the blob was
\* stored in the settings record and read back in between.
C25_RoundTrip ==
    (cx.stage = "decrypted" /\ cx.with = cx.key /\ Untouched) => cx.out = cx.text

\* C26: decryptData given another key than the blob was encrypted under, or a
\* blob whose iv or ciphertext was altered, throws and returns no text.
C26_WrongKeyOrAlteredBlobFails ==
    (cx.stage = "decrypted" /\ (cx.with # cx.key \/ ~Untouched)) => cx.out = DecryptError

\* C26 witness: a blob read back from the settings record had its iv altered,
\* and decryptData under the right key threw.
C26_Witness ==
    /\ cx.stage = "decrypted"
    /\ cx.with = cx.key
    /\ cx.text = <<"sk1">>
    /\ OrEmpty(dbSettings).apiKey = encryptData(cx.text, cx.key, cx.iv)
    /\ cx.blob = AlteredIv(OrEmpty(dbSettings).apiKey)
    /\ cx.out = DecryptError

\* ---------------------------------------------------------- claims: connection test

\* The class of failure a test request ends in.
FailureClass(net) ==
    IF net.kind = "typeerror" THEN "network"
    ELSE IF net.status \in {401, 403} THEN "auth"
    ELSE IF net.status >= 500 THEN "server"
    ELSE "other"

\* The message each of the three classes is reported with.
ClassMessage ==
    [auth |-> "Invalid Key (403)",
     server |-> "Server Error - Worker may be blocked by target",
     network |-> "CORS/Network Error. Check Worker 'Allowed Origins' or Key."]

\* C28: a test that met HTTP 401 or 403 reports the invalid-key error, one
\* that met a 5xx status the server error, one whose fetch failed the
\* CORS/network error; the three messages differ from each other and no other
\* failure is reported with one of them; the test succeeds only on a success
\* status with a body that holds 'Success' or 'html'.
C28_TestConnectionDistinctErrors ==
    tc.testStatus # "idle" =>
        /\ \A c, d \in DOMAIN ClassMessage : c # d => ClassMessage[c] # ClassMessage[d]
        /\ FailureClass(tc.net) # "other" =>
              /\ tc.testStatus = "error"
              /\ tc.error.message = ClassMessage[FailureClass(tc.net)]
        /\ FailureClass(tc.net) = "other" =>
              \A c \in DOMAIN ClassMessage : tc.error.message # ClassMessage[c]
        /\ tc.testStatus = "success" =>
              /\ tc.net.kind = "response"
              /\ tc.net.status = 200
              /\ \E i \in 1..Len(tc.net.body) : tc.net.body[i] \in {"Success", "html", "HTML"}

\* ------------------------------------------------------------------ claims: backup

\* C30: the exported backup holds no encrypted key blob: every secret slot of
\* the settings record in it is absent.
C30_ExportWithoutKeyBlobs ==
    \A settings \in exported.settings :
        \A slot \in SecretSlots : settings[slot] = NoBlob

\* ------------------------------------------------------ claims: candidate list

\* A URL field holds something besides whitespace.
NonBlank(url) == \E i \in 1..Len(url) : url[i] # " "

\* The URL a public tier uses: the override without surrounding whitespace
\* when it is non-blank, the built-in default otherwise.
PublicUrl(override, default) == IF NonBlank(override) THEN Trim(override) ELSE default

\* C29: once a call has built its candidate list, the list is the custom
\* proxy (only if the settings it read hold a non-blank custom URL), then
\* public proxy 1, then public proxy 2, each public proxy with the user's
\* override when non-blank and the built-in default otherwise.
C29_CandidateTiers ==
    fpc = "loop" =>
        LET custom == Field(fSettings, "customProxyUrl")
            publics == <<[tier |-> 3,
                          url |-> PublicUrl(Field(fSettings, "proxy1Url"), DEFAULT_PROXY_1)],
                         [tier |-> 4,
                          url |-> PublicUrl(Field(fSettings, "proxy2Url"), DEFAULT_PROXY_2)]>>
        IN  IF NonBlank(custom)
            THEN proxies = <<[tier |-> 2, url |-> Trim(custom)]>> \o publics
            ELSE proxies = publics

\* C29 witness: with a blank custom URL, an override for public proxy 1 and
\* none for public proxy 2, the list is the override and the second default.
C29_Witness ==
    /\ fpc = "loop"
    /\ Field(fSettings, "customProxyUrl") = BlankUrl
    /\ proxies = <<[tier |-> 3, url |-> MirrorUrl], [tier |-> 4, url |-> DEFAULT_PROXY_2]>>

\* ------------------------------------------------- claims: session, continued

\* C31: in every reachable state the session is Authenticated exactly when a
\* session key is held: isAuthenticated is true if and only if sessionKey is
\* not null.  sessionKey is one useState cell, so it holds at most one key.
C31_AuthenticatedIffKeyHeld == isAuthenticated <=> sessionKey # NoKey

\* C31 witness: a registration was followed by a logout, and a later submission
\* has opened a session again, which holds the key it derived.
C31_Witness ==
    /\ regThenLogout # {}
    /\ lastOp = "auth"
    /\ isAuthenticated
    /\ sessionKey = deriveKey(lastAuth.password,
                              (CHOOSE r \in getUser(lastAuth.username) : TRUE).salt)

\* ------------------------------------ claims: secret initialisation, continued

\* C32: in every state in which the session is Unauthenticated every in-memory
\* secret slot is empty, however logout is interleaved with a secret
\* initialisation that still awaits its read or a decryption.
C32_UnauthenticatedHoldsNoSecret ==
    (isDbReady /\ ~isAuthenticated) =>
        /\ EmptySlot(MEMORY_API_KEY)
        /\ EmptySlot(MEMORY_NOMAD_KEY)
        /\ EmptySlot(GEMINI_API_KEY)

\* ------------------------------------------------ claims: settings, continued

\* The fields each writer of the settings record saves.
FieldsSavedBy ==
    [saveCredentials |-> CredentialFields, saveNetwork |-> NetworkFields,
     saveCache |-> {"feedCacheDuration"}, saveDashboard |-> {"dashboardCache"}]

\* C33: no write of the settings record changes a field outside those its own
\* flow saves, so it neither reverts nor removes what another flow stored
\* after the writer read its snapshot; in particular the saveSettings of the
\* dashboard refresh leaves every secret blob, proxy URL and the cache TTL as
\* they are stored at the time of the write.
C33_NoWriteRevertsAnotherFlow ==
    [][lastOp' \in DOMAIN FieldsSavedBy =>
          \A f \in SettingsFields \ FieldsSavedBy[lastOp'] :
              OrEmpty(dbSettings')[f] = OrEmpty(dbSettings)[f]]_vars

\* ------------------------------------------------- claims: the channel record

\* C34: when a fetch resolved the uploads playlist of a channel and saved it,
\* the stored channel record carries that uploadsPlaylistId once the getVideos
\* call around the fetch and its cache write have completed.
C34_UploadsIdSurvivesCacheWrite ==
    (lastOp = "getVideos" /\ gv.uploadsSaved) => dbItem.uploadsPlaylistId = UploadsId

\* ------------------------------------------- claims: youtubeService.getVideos

\* C35: a youtubeService.getVideos call tries the official API only when an
\* API key is held in memory; when that attempt throws, the error is swallowed
\* and the RSS path is tried, once; the call throws only if the RSS path threw,
\* and returns whenever a path returned.
C35_ApiFirstRssFallback ==
    (lastOp = "getVideos" /\ gv.fetched) =>
        LET p == gv.paths
            last == p[Len(p)]
        IN  /\ Len(p) \in 1..2
            /\ \A i \in 1..Len(p) : p[i].path = "api" => (KeyPresent /\ i = 1)
            /\ Cardinality({i \in 1..Len(p) : p[i].path = "rss"}) <= 1
            /\ (p[1].path = "api" /\ ~p[1].ok) => (Len(p) = 2 /\ p[2].path = "rss")
            /\ (\E i \in 1..Len(p) : p[i].ok) => gv.result.ok
            /\ ~gv.result.ok => (last.path = "rss" /\ ~last.ok)

\* C35 witness: with a key held the API attempt threw, the RSS path returned a
\* list, and the call returned that list.
C35_Witness ==
    /\ lastOp = "getVideos"
    /\ KeyPresent
    /\ gv.paths = <<[path |-> "api", ok |-> FALSE], [path |-> "rss", ok |-> TRUE]>>
    /\ gv.result = [ok |-> TRUE, videos |-> <<"v1">>]

\* -------------------------------------------------- claims: the status callback

InTiers(pc) == pc \in {"nomad", "loop"}
Settled(pc) == pc \in {"resolved", "rejected"}

\* C36: a fetchText call that has reached its tiers invokes the registered
\* status callback exactly once, at the step in which it settles: not while
\* requests are still to be made, not again afterwards, with 'none' if and
\* only if the call rejects and so with another status if it resolves.
C36_StatusReportedOnceAtSettle ==
    [][/\ InTiers(fpc') => statusCalls' = <<>>
       /\ (InTiers(fpc) /\ Settled(fpc') /\ statusCallback) =>
             /\ Len(statusCalls') = 1
             /\ (statusCalls'[1] = "none") <=> (fpc' = "rejected")
       /\ (Settled(fpc) /\ attempts # <<>> /\ attempts' = attempts) =>
             statusCalls' = statusCalls]_vars

\* C36 witness: with the callback registered every tier of a call failed, and
\* the call rejected after reporting 'none' once.
C36_Witness ==
    /\ statusCallback
    /\ fpc = "rejected"
    /\ Len(attempts) = 4
    /\ statusCalls = <<"none">>

\* ------------------------------------------------------- claims: termination

\* C37: provided every request eventually completes or errors, each fetchText
\* call that has started on its tiers eventually settles; within a call no
\* tier is contacted twice, so a call makes at most four requests.
C37_SettlesWithinFourRequests ==
    /\ [](/\ Len(attempts) <= 4
          /\ \A i, j \in 1..Len(attempts) :
                attempts[i].tier = attempts[j].tier => i = j)
    /\ (InTiers(fpc) ~> Settled(fpc))

\* C37 witness: a call has settled after contacting the worker, the custom
\* proxy and both public proxies, each once.
C37_Witness ==
    /\ Settled(fpc)
    /\ {attempts[i].tier : i \in 1..Len(attempts)} = 1..4

\* ------------------------------------------------------------ claims: library

\* C38: when deleteTag(t) has completed, t is absent from the tags store and
\* from the tag list of every item of channels, playlists and favorites, and
\* nothing else has changed: the other tag records are as they were and every
\* item is its former self with t filtered out of its tags.
C38_DeleteTagRemovesEverywhere ==
    [][lastOp' = "deleteTag" =>
          /\ \A r \in dbTags' : r.name # deletedTag'
          /\ \A s \in Stores : \A item \in dbMedia'[s] :
                \A i \in 1..Len(item.tags) : item.tags[i] # deletedTag'
          /\ dbTags' = {r \in dbTags : r.name # deletedTag'}
          /\ \A s \in Stores :
                dbMedia'[s] = {[item EXCEPT !.tags = FilterTag(@, deletedTag')] :
                                  item \in dbMedia[s]}]_vars

====
